---------------------------- MODULE Spec2Model ----------------------------
(***************************************************************************)
(* Azul engine: the rules of the game (lib.rs), the Monte-Carlo tree       *)
(* search engine Mcts (ai/mcts_lib.rs) driven by MctsHeuristicAI           *)
(* (ai/mcts_heuristic_ai.rs) inside a WasmGame (lib.rs), and the policy    *)
(* masking of the neural-network policy (ai/mcts_nn_ai.rs).                *)
(*                                                                         *)
(* Conventions.  Indices that the source passes around (factory index,     *)
(* pattern-line index, arena index, player index, policy index) keep the   *)
(* source's 0-based values; a TLA+ sequence s holding a Vec v has          *)
(* s[i + 1] = v[i].  Option<usize>::None is NoIdx, Option<Tile>::None is   *)
(* "None", Option<Move>::None is NoMove.                                   *)
(*                                                                         *)
(* tile_bag and discard_pile are Vec<Tile> in the source.  Their order is  *)
(* never observed (every read is a uniformly random removal, a shuffle or  *)
(* a count), so they are kept as counts per colour.                        *)
(*                                                                         *)
(* f32 values: scores and accumulated values are small integers, exact in  *)
(* f32; quotients are kept as exact fractions [num, den] and compared by   *)
(* cross-multiplication.                                                   *)
(*                                                                         *)
(* Randomness.  thread_rng in refill_factories, the hasher of the HashSet  *)
(* in get_legal_moves and the playout behind simulate are choices: a seed  *)
(* of 0..MaxSeed, an order of HashOrders fixed for the length of one       *)
(* get_move, and a score vector of SimOutcomes for every playout.          *)
(*                                                                         *)
(* MctsHeuristicAI::get_move is followed in steps (RunAiTurnBegin, one     *)
(* Iterate for every pass of run_search, RunAiTurnEnd); no other method of *)
(* the WasmGame runs between them.                                         *)
(***************************************************************************)
EXTENDS Integers, Sequences, FiniteSets, TLC

(***************************************************************************)
(* Program constants.                                                      *)
(***************************************************************************)
NUM_ROWS == 5
NUM_COLS == 5
TILES_PER_COLOR == 20
FACTORY_SIZE == 4
FLOOR_PENALTY_VALUES == <<1, 1, 2, 2, 2, 3, 3>>

AllColors == <<"Blue", "Yellow", "Red", "Black", "White">>

Tile == {AllColors[i] : i \in 1..Len(AllColors)}

WALL_LAYOUT ==
  << <<"Blue",   "Yellow", "Red",    "Black",  "White">>,
     <<"White",  "Blue",   "Yellow", "Red",    "Black">>,
     <<"Black",  "White",  "Blue",   "Yellow", "Red">>,
     <<"Red",    "Black",  "White",  "Blue",   "Yellow">>,
     <<"Yellow", "Red",    "Black",  "White",  "Blue">> >>

NoIdx == -1

(***************************************************************************)
(* Small helpers on sequences and counts.                                  *)
(***************************************************************************)
Min(a, b) == IF a <= b THEN a ELSE b

Max(a, b) == IF a >= b THEN a ELSE b

CountTile(tiles, t) == Cardinality({i \in DOMAIN tiles : tiles[i] = t})

RECURSIVE Flatten(_)
Flatten(ss) == IF ss = <<>> THEN <<>> ELSE Head(ss) \o Flatten(Tail(ss))

RECURSIVE SumSeq(_)
SumSeq(s) == IF s = <<>> THEN 0 ELSE Head(s) + SumSeq(Tail(s))

Range(s) == {s[i] : i \in DOMAIN s}

EmptyCounts == [t \in Tile |-> 0]

AddTiles(counts, tiles) == [t \in Tile |-> counts[t] + CountTile(tiles, t)]

CountsTotal(counts) == SumSeq([i \in 1..Len(AllColors) |-> counts[AllColors[i]]])

(***************************************************************************)
(* Moves (lib.rs: MoveSource, MoveDestination, Move).                      *)
(***************************************************************************)
Factory(i) == [kind |-> "Factory", idx |-> i]

Center == [kind |-> "Center", idx |-> 0]

PatternLine(i) == [kind |-> "PatternLine", idx |-> i]

Floor == [kind |-> "Floor", idx |-> 0]

Move(src, t, dst) == [source |-> src, tile |-> t, destination |-> dst]

NoMove == [source |-> [kind |-> "None", idx |-> 0], tile |-> "None",
           destination |-> [kind |-> "None", idx |-> 0]]

(***************************************************************************)
(* PlayerBoard (lib.rs).                                                   *)
(***************************************************************************)
PlayerBoard_new ==
  [score |-> 0,
   pattern_lines |-> [r \in 1..NUM_ROWS |-> <<>>],
   wall |-> [r \in 1..NUM_ROWS |-> [c \in 1..NUM_COLS |-> "None"]],
   floor_line |-> <<>>,
   has_first_player_marker |-> FALSE]

\* WALL_LAYOUT[row].iter().position(|&t| t == tile): every colour is in every row.
wall_col(row, tile) == CHOOSE c \in 0..(NUM_COLS - 1) : WALL_LAYOUT[row + 1][c + 1] = tile

is_placement_valid(pb, pattern_line_idx, tile_color) ==
  LET line == pb.pattern_lines[pattern_line_idx + 1] IN
    /\ ~(Len(line) >= pattern_line_idx + 1)
    /\ ~(line # <<>> /\ line[1] # tile_color)
    /\ pb.wall[pattern_line_idx + 1][wall_col(pattern_line_idx, tile_color) + 1] = "None"

will_complete_horizontal_row(pb, pattern_line_idx) ==
  /\ Len(pb.pattern_lines[pattern_line_idx + 1]) = pattern_line_idx + 1
  /\ Cardinality({c \in 1..NUM_COLS : pb.wall[pattern_line_idx + 1][c] # "None"}) = 4

\* tiles_to_place is drained from its end into the line; what is left goes to the floor.
place_tiles(pb, tiles_to_place, destination) ==
  IF destination.kind = "Floor"
  THEN [pb EXCEPT !.floor_line = @ \o tiles_to_place]
  ELSE LET idx      == destination.idx
           line     == pb.pattern_lines[idx + 1]
           capacity == idx + 1
           n        == Min(Len(tiles_to_place), Max(0, capacity - Len(line)))
           pushed   == [i \in 1..n |-> tiles_to_place[Len(tiles_to_place) - i + 1]]
           rest     == SubSeq(tiles_to_place, 1, Len(tiles_to_place) - n)
       IN [pb EXCEPT !.pattern_lines[idx + 1] = line \o pushed,
                     !.floor_line = @ \o rest]

RECURSIVE RunLen(_, _, _, _, _)
\* Number of consecutive filled wall cells from (row, col) exclusive in direction (dr, dc).
RunLen(wall, row, col, dr, dc) ==
  LET r == row + dr
      c == col + dc
  IN IF r < 0 \/ r >= NUM_ROWS \/ c < 0 \/ c >= NUM_COLS THEN 0
     ELSE IF wall[r + 1][c + 1] = "None" THEN 0
     ELSE 1 + RunLen(wall, r, c, dr, dc)

calculate_placement_score(wall, row, col) ==
  LET horizontal_score == 1 + RunLen(wall, row, col, 0, -1) + RunLen(wall, row, col, 0, 1)
      vertical_score   == 1 + RunLen(wall, row, col, -1, 0) + RunLen(wall, row, col, 1, 0)
  IN IF horizontal_score > 1 /\ vertical_score > 1
     THEN horizontal_score + vertical_score
     ELSE Max(horizontal_score, vertical_score)

RECURSIVE TilingRows(_, _)
\* The row loop of PlayerBoard::run_tiling_phase from row_idx on.  acc carries the
\* board, new_score, the tiles to discard and completed_a_row.
TilingRows(acc, row_idx) ==
  IF row_idx >= NUM_ROWS THEN acc
  ELSE LET pb   == acc.pb
           line == pb.pattern_lines[row_idx + 1]
       IN IF Len(line) = row_idx + 1
             /\ pb.wall[row_idx + 1][wall_col(row_idx, line[1]) + 1] = "None"
          THEN LET col_idx == wall_col(row_idx, line[1])
                   newwall == [pb.wall EXCEPT ![row_idx + 1][col_idx + 1] = line[1]]
                   rowfull == \A c \in 1..NUM_COLS : newwall[row_idx + 1][c] # "None"
               IN TilingRows(
                    [pb |-> [pb EXCEPT !.wall = newwall,
                                       !.pattern_lines[row_idx + 1] = <<>>],
                     new_score |-> acc.new_score
                                     + calculate_placement_score(pb.wall, row_idx, col_idx),
                     discard |-> acc.discard \o line,
                     completed_a_row |-> acc.completed_a_row \/ rowfull],
                    row_idx + 1)
          ELSE TilingRows(acc, row_idx + 1)

floor_penalty(floor_items_count) ==
  IF floor_items_count > 0
  THEN SumSeq(SubSeq(FLOOR_PENALTY_VALUES, 1, Min(floor_items_count, 7)))
  ELSE 0

\* PlayerBoard::run_tiling_phase: the board after it, the tiles it appends to the
\* discard pile, and its return value.
PlayerBoard_run_tiling_phase(pb0) ==
  LET acc == TilingRows([pb |-> pb0, new_score |-> 0, discard |-> <<>>,
                         completed_a_row |-> FALSE], 0)
      pb1 == acc.pb
      floor_items_count == Len(pb1.floor_line)
                             + (IF pb1.has_first_player_marker THEN 1 ELSE 0)
      scored == pb1.score + acc.new_score
  IN [pb |-> [pb1 EXCEPT !.score = Max(0, scored - floor_penalty(floor_items_count)),
                         !.floor_line = <<>>,
                         !.has_first_player_marker = FALSE],
      discard |-> acc.discard \o pb1.floor_line,
      completed_a_row |-> acc.completed_a_row]

(***************************************************************************)
(* GameState (lib.rs).                                                     *)
(***************************************************************************)
is_round_over(gs) ==
  /\ \A i \in DOMAIN gs.factories : gs.factories[i] = <<>>
  /\ gs.center = <<>>

\* The moves generated for one colour of one source: the valid pattern lines in
\* ascending order, then the floor.
moves_for_tile(pb, source, tile) ==
  LET rows == SelectSeq([i \in 1..NUM_ROWS |-> i - 1],
                        LAMBDA i : is_placement_valid(pb, i, tile))
  IN [k \in 1..Len(rows) |-> Move(source, tile, PatternLine(rows[k]))]
       \o <<Move(source, tile, Floor)>>

\* generate_moves_for_source without the HashSet: one batch of moves for every
\* tile of the source, in the order of hash_order.
generate_moves_every_tile(pb, source, tiles, hash_order) ==
  LET sorted_tiles == Flatten([k \in 1..Len(hash_order) |->
                                 SelectSeq(tiles, LAMBDA t : t = hash_order[k])])
  IN Flatten([k \in 1..Len(sorted_tiles) |-> moves_for_tile(pb, source, sorted_tiles[k])])

\* generate_moves_for_source: unique_tiles is a HashSet, iterated in an order the
\* hasher decides; hash_order is that order (a permutation of the colours).
generate_moves_for_source(pb, source, tiles, hash_order) ==
  LET unique_tiles == SelectSeq(hash_order, LAMBDA t : CountTile(tiles, t) > 0)
  IN Flatten([k \in 1..Len(unique_tiles) |-> moves_for_tile(pb, source, unique_tiles[k])])

get_legal_moves(gs, hash_order) ==
  LET current_player_board == gs.players[gs.current_player_idx + 1]
      from_factories ==
        Flatten([i \in 1..Len(gs.factories) |->
                   IF gs.factories[i] # <<>>
                   THEN generate_moves_for_source(current_player_board, Factory(i - 1),
                                                  gs.factories[i], hash_order)
                   ELSE <<>>])
      from_center ==
        IF gs.center # <<>>
        THEN generate_moves_for_source(current_player_board, Center, gs.center, hash_order)
        ELSE <<>>
  IN from_factories \o from_center

\* apply_move that assigns end_game_triggered on every move to a pattern line.
apply_move_flag_assigned(gs, player_move) ==
  LET cur == gs.current_player_idx + 1
      from_factory == player_move.source.kind = "Factory"
      source_tiles == IF from_factory THEN gs.factories[player_move.source.idx + 1]
                      ELSE gs.center
      taken_tiles == SelectSeq(source_tiles, LAMBDA t : t = player_move.tile)
      remaining   == SelectSeq(source_tiles, LAMBDA t : t # player_move.tile)
      takes_marker == ~from_factory /\ gs.first_player_marker_in_center
      player0 == IF takes_marker
                 THEN [gs.players[cur] EXCEPT !.has_first_player_marker = TRUE]
                 ELSE gs.players[cur]
      player1 == place_tiles(player0, taken_tiles, player_move.destination)
  IN [gs EXCEPT
        !.factories = IF from_factory
                      THEN [@ EXCEPT ![player_move.source.idx + 1] = <<>>]
                      ELSE @,
        !.center = IF from_factory THEN @ \o remaining ELSE remaining,
        !.first_player_marker_in_center = IF takes_marker THEN FALSE ELSE @,
        !.players[cur] = player1,
        !.end_game_triggered =
           IF player_move.destination.kind = "PatternLine"
             THEN will_complete_horizontal_row(player1, player_move.destination.idx)
             ELSE @,
        !.current_player_idx = (gs.current_player_idx + 1) % Len(gs.players)]

\* apply_move that hands the marker to who takes from the centre and leaves
\* first_player_marker_in_center as it is.
apply_move_marker_left(gs, player_move) ==
  LET cur == gs.current_player_idx + 1
      from_factory == player_move.source.kind = "Factory"
      source_tiles == IF from_factory THEN gs.factories[player_move.source.idx + 1]
                      ELSE gs.center
      taken_tiles == SelectSeq(source_tiles, LAMBDA t : t = player_move.tile)
      remaining   == SelectSeq(source_tiles, LAMBDA t : t # player_move.tile)
      takes_marker == ~from_factory /\ gs.first_player_marker_in_center
      player0 == IF takes_marker
                 THEN [gs.players[cur] EXCEPT !.has_first_player_marker = TRUE]
                 ELSE gs.players[cur]
      player1 == place_tiles(player0, taken_tiles, player_move.destination)
      triggers == /\ player_move.destination.kind = "PatternLine"
                  /\ ~gs.end_game_triggered
                  /\ will_complete_horizontal_row(player1, player_move.destination.idx)
  IN [gs EXCEPT
        !.factories = IF from_factory
                      THEN [@ EXCEPT ![player_move.source.idx + 1] = <<>>]
                      ELSE @,
        !.center = IF from_factory THEN @ \o remaining ELSE remaining,
        !.players[cur] = player1,
        !.end_game_triggered = IF triggers THEN TRUE ELSE @,
        !.current_player_idx = (gs.current_player_idx + 1) % Len(gs.players)]

apply_move(gs, player_move) ==
  LET cur == gs.current_player_idx + 1
      from_factory == player_move.source.kind = "Factory"
      source_tiles == IF from_factory THEN gs.factories[player_move.source.idx + 1]
                      ELSE gs.center
      taken_tiles == SelectSeq(source_tiles, LAMBDA t : t = player_move.tile)
      remaining   == SelectSeq(source_tiles, LAMBDA t : t # player_move.tile)
      takes_marker == ~from_factory /\ gs.first_player_marker_in_center
      player0 == IF takes_marker
                 THEN [gs.players[cur] EXCEPT !.has_first_player_marker = TRUE]
                 ELSE gs.players[cur]
      player1 == place_tiles(player0, taken_tiles, player_move.destination)
      triggers == /\ player_move.destination.kind = "PatternLine"
                  /\ ~gs.end_game_triggered
                  /\ will_complete_horizontal_row(player1, player_move.destination.idx)
  IN [gs EXCEPT
        !.factories = IF from_factory
                      THEN [@ EXCEPT ![player_move.source.idx + 1] = <<>>]
                      ELSE @,
        !.center = IF from_factory THEN @ \o remaining ELSE remaining,
        !.first_player_marker_in_center = IF takes_marker THEN FALSE ELSE @,
        !.players[cur] = player1,
        !.end_game_triggered = IF triggers THEN TRUE ELSE @,
        !.current_player_idx = (gs.current_player_idx + 1) % Len(gs.players)]

RECURSIVE TilePlayers(_, _)
\* The player loop of GameState::run_tiling_phase from player p (1-based) on.
TilePlayers(acc, p) ==
  IF p > Len(acc.players) THEN acc
  ELSE LET r == PlayerBoard_run_tiling_phase(acc.players[p])
       IN TilePlayers([players |-> [acc.players EXCEPT ![p] = r.pb],
                       discard_pile |-> AddTiles(acc.discard_pile, r.discard),
                       end_game_triggered |-> acc.end_game_triggered \/ r.completed_a_row],
                      p + 1)

run_tiling_phase(gs) ==
  LET holders == {p \in 1..Len(gs.players) : gs.players[p].has_first_player_marker}
      next_starter_idx ==
        IF holders # {} THEN (CHOOSE p \in holders : \A q \in holders : p <= q) - 1
        ELSE gs.current_player_idx
      acc == TilePlayers([players |-> gs.players, discard_pile |-> gs.discard_pile,
                          end_game_triggered |-> gs.end_game_triggered], 1)
  IN [gs EXCEPT !.players = acc.players,
                !.discard_pile = acc.discard_pile,
                !.end_game_triggered = acc.end_game_triggered,
                !.current_player_idx = next_starter_idx]


\* rng.gen_range(0..tile_bag.len()) followed by tile_bag.remove: a uniformly random
\* tile of the bag.  The colour drawn is any colour the bag holds; the model draws
\* the first colour the bag holds in the rotation of AllColors that starts at
\* position pref, and pref is chosen by the caller.
DrawColor(bag, pref) ==
  LET cand == {k \in 0..(Len(AllColors) - 1) :
                 bag[AllColors[((pref + k) % Len(AllColors)) + 1]] > 0}
      k0   == CHOOSE k \in cand : \A j \in cand : k <= j
  IN AllColors[((pref + k0) % Len(AllColors)) + 1]

RECURSIVE RefillDraws(_, _, _, _)
\* The two loops of refill_factories from draw k (0..3) of factory f (1-based) on.
\* A factory is cleared when its first draw is reached; `break` leaves the draws
\* of the current factory.
RefillDraws(acc, f, k, seed) ==
  IF f > Len(acc.factories) THEN acc
  ELSE IF k >= FACTORY_SIZE THEN RefillDraws(acc, f + 1, 0, seed)
  ELSE LET cleared == IF k = 0 THEN [acc EXCEPT !.factories[f] = <<>>] ELSE acc
           bagEmpty == CountsTotal(cleared.tile_bag) = 0
           discEmpty == CountsTotal(cleared.discard_pile) = 0
       IN IF bagEmpty /\ discEmpty
          THEN RefillDraws(cleared, f + 1, 0, seed)
          ELSE LET swapped == IF bagEmpty
                              THEN [cleared EXCEPT !.tile_bag = cleared.discard_pile,
                                                   !.discard_pile = cleared.tile_bag]
                              ELSE cleared
                   tile == DrawColor(swapped.tile_bag, seed * k + f - 1)
               IN RefillDraws([swapped EXCEPT !.tile_bag[tile] = @ - 1,
                                              !.factories[f] = @ \o <<tile>>],
                              f, k + 1, seed)

\* refill_factories that never takes the discard pile for the bag.
refill_factories_no_swap(gs, seed) ==
  LET acc == RefillDraws([factories |-> gs.factories, tile_bag |-> gs.tile_bag,
                          discard_pile |-> EmptyCounts], 1, 0, seed)
  IN [gs EXCEPT !.factories = acc.factories,
                !.tile_bag = acc.tile_bag,
                !.center = <<>>,
                !.first_player_marker_in_center = TRUE]

\* seed stands for the state of thread_rng: it fixes which tiles are drawn (draw k
\* of factory f prefers colour seed * k + f - 1, so seed 0 fills every factory
\* with one colour and seed 1 with four).
refill_factories(gs, seed) ==
  LET acc == RefillDraws([factories |-> gs.factories, tile_bag |-> gs.tile_bag,
                          discard_pile |-> gs.discard_pile], 1, 0, seed)
  IN [gs EXCEPT !.factories = acc.factories,
                !.tile_bag = acc.tile_bag,
                !.discard_pile = acc.discard_pile,
                !.center = <<>>,
                !.first_player_marker_in_center = TRUE]

calculate_end_game_bonuses(pb) ==
  LET rows == Cardinality({r \in 1..NUM_ROWS : \A c \in 1..NUM_COLS : pb.wall[r][c] # "None"})
      cols == Cardinality({c \in 1..NUM_COLS : \A r \in 1..NUM_ROWS : pb.wall[r][c] # "None"})
      sets == Cardinality({t \in Tile :
                Cardinality({rc \in (1..NUM_ROWS) \X (1..NUM_COLS) :
                               pb.wall[rc[1]][rc[2]] = t}) = 5})
  IN 2 * rows + 7 * cols + 10 * sets

apply_end_game_scoring(gs) ==
  [gs EXCEPT !.players = [p \in DOMAIN gs.players |->
                            [gs.players[p] EXCEPT !.score = @ + calculate_end_game_bonuses(gs.players[p])]]]

(***************************************************************************)
(* HeuristicAI (ai/heuristic_ai.rs).  Iterator::max_by_key returns the     *)
(* last of the greatest elements.                                          *)
(***************************************************************************)
LastMaxBy(s, key(_)) ==
  LET keys == <<>> \o [i \in DOMAIN s |-> key(s[i])]
      vals == Range(keys)
      greatest == CHOOSE v \in vals : \A w \in vals : w <= v
      at == {i \in DOMAIN keys : keys[i] = greatest}
  IN s[CHOOSE i \in at : \A j \in at : j <= i]

is_first_move_of_round(gs) == gs.center = <<>>

count_tiles_at_source(gs, source, tile) ==
  IF source.kind = "Factory" THEN CountTile(gs.factories[source.idx + 1], tile)
  ELSE CountTile(gs.center, tile)

calculate_column_progress_by_index(player, col_idx) ==
  Cardinality({r \in 1..5 : player.wall[r][col_idx + 1] # "None"})

calculate_column_progress(player, row_idx, tile) ==
  calculate_column_progress_by_index(player, wall_col(row_idx, tile))

calculate_adjacency_score(player, row_idx, tile) ==
  LET col_idx == wall_col(row_idx, tile)
      filled(r, c) == player.wall[r + 1][c + 1] # "None"
  IN (IF col_idx > 0 /\ filled(row_idx, col_idx - 1) THEN 1 ELSE 0)
     + (IF col_idx < 4 /\ filled(row_idx, col_idx + 1) THEN 1 ELSE 0)
     + (IF row_idx > 0 /\ filled(row_idx - 1, col_idx) THEN 1 ELSE 0)
     + (IF row_idx < 4 /\ filled(row_idx + 1, col_idx) THEN 1 ELSE 0)

\* (idx + 1) - line.len() for the line of the player to move.
space_available(gs, idx) ==
  (idx + 1) - Len(gs.players[gs.current_player_idx + 1].pattern_lines[idx + 1])

\* find_big_grab_move with the space of a line taken as idx - line.len().
find_big_grab_short_line(gs, legal_moves) ==
  LET fits(m) == /\ m.destination.kind = "PatternLine"
                 /\ count_tiles_at_source(gs, m.source, m.tile) >= 3
                 /\ count_tiles_at_source(gs, m.source, m.tile)
                      = space_available(gs, m.destination.idx) - 1
      cands == SelectSeq(legal_moves, fits)
  IN IF cands = <<>> THEN NoMove
     ELSE cands[CHOOSE i \in DOMAIN cands :
                  \A j \in DOMAIN cands :
                    \/ cands[j].destination.idx < cands[i].destination.idx
                    \/ (cands[j].destination.idx = cands[i].destination.idx /\ i <= j)]

\* best_option is replaced only by a strictly higher row: the first of the
\* candidates of the highest row.
find_big_grab_move(gs, legal_moves) ==
  LET fits(m) == /\ m.destination.kind = "PatternLine"
                 /\ count_tiles_at_source(gs, m.source, m.tile) >= 3
                 /\ count_tiles_at_source(gs, m.source, m.tile)
                      = space_available(gs, m.destination.idx)
      cands == SelectSeq(legal_moves, fits)
  IN IF cands = <<>> THEN NoMove
     ELSE cands[CHOOSE i \in DOMAIN cands :
                  \A j \in DOMAIN cands :
                    \/ cands[j].destination.idx < cands[i].destination.idx
                    \/ (cands[j].destination.idx = cands[i].destination.idx /\ i <= j)]

find_untouched_center_move(gs, legal_moves) ==
  LET current_player == gs.players[gs.current_player_idx + 1]
      count(m) == count_tiles_at_source(gs, m.source, m.tile)
      line_len(m) == Len(current_player.pattern_lines[m.destination.idx + 1])
      center_moves == SelectSeq(legal_moves,
                        LAMBDA m : m.source = Center /\ m.destination.kind = "PatternLine")
      perfect == SelectSeq(center_moves,
                   LAMBDA m : count(m) >= 2 /\ line_len(m) + count(m) = m.destination.idx + 1)
      column == SelectSeq(center_moves,
                  LAMBDA m : count(m) >= 2 /\ m.destination.idx >= 2)
      column_key(m) == calculate_column_progress(current_player, m.destination.idx, m.tile)
      single == SelectSeq(center_moves,
                  LAMBDA m : count(m) = 1 /\ line_len(m) + 1 = m.destination.idx + 1)
      single_key(m) == m.destination.idx
  IN IF center_moves = <<>> THEN NoMove
     ELSE IF perfect # <<>> THEN perfect[1]
     ELSE IF column # <<>> THEN LastMaxBy(column, column_key)
     ELSE IF single # <<>> THEN LastMaxBy(single, single_key)
     ELSE NoMove

find_first_move_priority(gs, legal_moves) ==
  LET current_player == gs.players[gs.current_player_idx + 1]
      cands == SelectSeq(legal_moves,
                 LAMBDA m : /\ m.destination = PatternLine(1)
                            /\ count_tiles_at_source(gs, m.source, m.tile)
                                 >= 2 - Len(current_player.pattern_lines[2]))
      key(m) == calculate_adjacency_score(current_player, 1, m.tile)
  IN IF cands = <<>> THEN NoMove ELSE LastMaxBy(cands, key)

\* The key of max_by_key in find_best_general_move.
general_move_score(gs, m) ==
  LET current_player == gs.players[gs.current_player_idx + 1]
      tile_count == count_tiles_at_source(gs, m.source, m.tile)
  IN IF m.destination.kind = "PatternLine"
     THEN LET idx == m.destination.idx
              space == space_available(gs, idx)
              tiles_placed == Min(tile_count, space)
              tiles_to_floor == Max(tile_count - space, 0)
              col_idx == wall_col(idx, m.tile)
          IN (0 - tiles_to_floor * 20) + tiles_placed * 10
             + (IF tile_count >= space THEN 15 ELSE 0)
             + calculate_adjacency_score(current_player, idx, m.tile) * 5
             + (IF col_idx > 0
                THEN calculate_column_progress_by_index(current_player, col_idx - 1) * 3
                ELSE 0)
             + (IF col_idx < 4
                THEN calculate_column_progress_by_index(current_player, col_idx + 1) * 3
                ELSE 0)
     ELSE (0 - tile_count * 20) - 1

find_best_general_move(gs, legal_moves) ==
  LET key(m) == general_move_score(gs, m)
  IN IF legal_moves = <<>> THEN NoMove ELSE LastMaxBy(legal_moves, key)

\* get_move without the general rule after the three priorities.
HeuristicAI_get_move_priorities_only(game_state, hash_order) ==
  LET legal_moves == get_legal_moves(game_state, hash_order)
      big_grab == find_big_grab_move(game_state, legal_moves)
      center_move == find_untouched_center_move(game_state, legal_moves)
      first_move == find_first_move_priority(game_state, legal_moves)
  IN IF legal_moves = <<>> THEN NoMove
     ELSE IF big_grab # NoMove THEN big_grab
     ELSE IF game_state.first_player_marker_in_center /\ center_move # NoMove
          THEN center_move
     ELSE IF is_first_move_of_round(game_state) /\ first_move # NoMove THEN first_move
     ELSE NoMove

\* HeuristicAI::get_move; NoMove is None.
HeuristicAI_get_move(game_state, hash_order) ==
  LET legal_moves == get_legal_moves(game_state, hash_order)
      big_grab == find_big_grab_move(game_state, legal_moves)
      center_move == find_untouched_center_move(game_state, legal_moves)
      first_move == find_first_move_priority(game_state, legal_moves)
  IN IF legal_moves = <<>> THEN NoMove
     ELSE IF big_grab # NoMove THEN big_grab
     ELSE IF game_state.first_player_marker_in_center /\ center_move # NoMove
          THEN center_move
     ELSE IF is_first_move_of_round(game_state) /\ first_move # NoMove THEN first_move
     ELSE find_best_general_move(game_state, legal_moves)

(***************************************************************************)
(* The search tree (ai/mcts_lib.rs).                                       *)
(***************************************************************************)
Frac(n, d) == [num |-> n, den |-> d]

\* Node::new.  hash_order: see generate_moves_for_source.
Node_new(parent, prior, game_state, hash_order) ==
  [parent |-> parent,
   children |-> <<>>,
   untried_moves |-> get_legal_moves(game_state, hash_order),
   visit_count |-> 0,
   total_action_value |-> 0,
   prior_probability |-> prior,
   game_state |-> game_state]

\* mean_action_value without the test for visit_count 0.
mean_action_value_unguarded(node) == Frac(node.total_action_value, node.visit_count)

\* Node::mean_action_value, as an exact fraction.
mean_action_value(node) ==
  IF node.visit_count = 0 THEN Frac(0, 1)
  ELSE Frac(node.total_action_value, node.visit_count)

\* Mcts::new: the arena `tree`.
Mcts_new(initial_state, hash_order) ==
  <<Node_new(NoIdx, Frac(1, 1), initial_state, hash_order)>>

\* The child of the root that sync_tree_with_state's find returns: the first child,
\* in the order of root.children, whose players equal the given state's; NoIdx
\* when there is none.
find_root_child(tree, current_game_state) ==
  LET root == tree[1]
      hits == {k \in DOMAIN root.children :
                 tree[root.children[k].idx + 1].game_state.players
                   = current_game_state.players}
  IN IF hits = {} THEN NoIdx
     ELSE root.children[CHOOSE k \in hits : \A j \in hits : k <= j].idx

\* sync_tree_with_state that leaves the tree alone when no child matches.
sync_keep_unmatched(tree, current_game_state, hash_order) ==
  LET child_idx == find_root_child(tree, current_game_state)
  IN IF child_idx # NoIdx
     THEN Mcts_new(tree[child_idx + 1].game_state, hash_order)
     ELSE tree

\* Mcts::sync_tree_with_state: both branches assign a new Mcts to *self.
sync_tree_with_state(tree, current_game_state, hash_order) ==
  LET child_idx == find_root_child(tree, current_game_state)
  IN IF child_idx # NoIdx
     THEN Mcts_new(tree[child_idx + 1].game_state, hash_order)
     ELSE Mcts_new(current_game_state, hash_order)

RECURSIVE MaxByVisits(_, _, _, _)
\* Iterator::max_by_key over children[k..]: the last of the maximal elements.
MaxByVisits(tree, children, k, best) ==
  IF k > Len(children) THEN best
  ELSE MaxByVisits(tree, children, k + 1,
         IF tree[children[best].idx + 1].visit_count
              > tree[children[k].idx + 1].visit_count
         THEN best ELSE k)

RECURSIVE MaxByValue(_, _, _, _)
\* As MaxByVisits, with mean_action_value as the key.
MaxByValue(tree, children, k, best) ==
  IF k > Len(children) THEN best
  ELSE MaxByValue(tree, children, k + 1,
         LET b == mean_action_value(tree[children[best].idx + 1])
             c == mean_action_value(tree[children[k].idx + 1])
         IN IF b.num * c.den > c.num * b.den THEN best ELSE k)

\* best_move that ranks the children by mean value.
best_move_by_value(tree) ==
  IF tree = <<>> THEN NoMove
  ELSE LET root == tree[1]
       IN IF root.children = <<>> THEN NoMove
          ELSE root.children[MaxByValue(tree, root.children, 2, 1)].move

\* Mcts::best_move.
best_move(tree) ==
  IF tree = <<>> THEN NoMove
  ELSE LET root == tree[1]
       IN IF root.children = <<>> THEN NoMove
          ELSE root.children[MaxByVisits(tree, root.children, 2, 1)].move

\* Mcts::puct_score: q_value + 1.41 * p_value * sqrt(parent_visit_count)
\* / (1 + visit_count), kept as q + (141 / 100) * e * sqrt(n) with q and e exact
\* fractions.  On the trees followed, two scores that differ as real numbers
\* differ by far more than the rounding of f32, and equal scores come from equal
\* q, p and visit counts, so the order of the f32 values is the order of the reals.
puct_score(tree, node_idx, parent_visit_count) ==
  LET node == tree[node_idx + 1]
  IN [q |-> mean_action_value(node),
      e |-> Frac(node.prior_probability.num,
                 node.prior_probability.den * (1 + node.visit_count)),
      n |-> parent_visit_count]

RECURSIVE Gcd(_, _)
Gcd(a, b) == IF b = 0 THEN a ELSE Gcd(b, a % b)

Abs(x) == IF x < 0 THEN -x ELSE x

\* The fraction n / d (d > 0) in lowest terms.
Reduce(n, d) ==
  LET g == Gcd(Abs(n), d)
  IN Frac(n \div g, d \div g)

\* a > b for two puct scores under the same parent_visit_count n:
\*   100 * (qa - qb) > 141 * (eb - ea) * sqrt(n), decided on integers.
ScoreGreater(a, b) ==
  LET x == Reduce(a.q.num * b.q.den - b.q.num * a.q.den, a.q.den * b.q.den)
      y == Reduce(b.e.num * a.e.den - a.e.num * b.e.den, a.e.den * b.e.den)
      l0 == 100 * x.num * y.den
      r0 == 141 * y.num * x.den
      g  == IF l0 = 0 /\ r0 = 0 THEN 1 ELSE Gcd(Abs(l0), Abs(r0))
      l  == l0 \div g
      r  == r0 \div g
  IN IF l > 0 /\ r <= 0 THEN TRUE
     ELSE IF l <= 0 /\ r >= 0 THEN FALSE
     ELSE IF l > 0 THEN l * l > r * r * a.n
     ELSE l * l < r * r * a.n

RECURSIVE MaxByScore(_, _, _, _, _)
\* Iterator::max_by over children[k..] with partial_cmp of the puct scores: the
\* last of the maximal elements.
MaxByScore(tree, children, n, k, best) ==
  IF k > Len(children) THEN best
  ELSE MaxByScore(tree, children, n, k + 1,
         IF ScoreGreater(puct_score(tree, children[best].idx, n),
                         puct_score(tree, children[k].idx, n))
         THEN best ELSE k)

\* The expansion branch that leaves the expanded move among the untried moves.
expand_keep_untried(tree, current_idx, hash_order) ==
  LET node == tree[current_idx + 1]
      next_move == node.untried_moves[Len(node.untried_moves)]
      new_state == apply_move(node.game_state, next_move)
      prior_prob == Frac(1, Len(node.children) + 1)
      new_node == Node_new(current_idx, prior_prob, new_state, hash_order)
      new_node_idx == Len(tree)
  IN [tree |-> Append([tree EXCEPT ![current_idx + 1].children =
                                    Append(@, [move |-> next_move, idx |-> new_node_idx])],
                      new_node),
      idx |-> new_node_idx]

\* The expansion branch taking the first untried move while the last is popped.
expand_first_move(tree, current_idx, hash_order) ==
  LET node == tree[current_idx + 1]
      next_move == node.untried_moves[1]
      new_state == apply_move(node.game_state, next_move)
      prior_prob == Frac(1, Len(node.children) + 1)
      new_node == Node_new(current_idx, prior_prob, new_state, hash_order)
      new_node_idx == Len(tree)
      popped == [tree EXCEPT ![current_idx + 1].untried_moves =
                               SubSeq(@, 1, Len(@) - 1)]
  IN [tree |-> Append([popped EXCEPT ![current_idx + 1].children =
                                      Append(@, [move |-> next_move, idx |-> new_node_idx])],
                      new_node),
      idx |-> new_node_idx]

\* The expansion branch of select_and_expand at node current_idx.
expand(tree, current_idx, hash_order) ==
  LET node == tree[current_idx + 1]
      next_move == node.untried_moves[Len(node.untried_moves)]
      new_state == apply_move(node.game_state, next_move)
      prior_prob == Frac(1, Len(node.children) + 1)
      new_node == Node_new(current_idx, prior_prob, new_state, hash_order)
      new_node_idx == Len(tree)
      popped == [tree EXCEPT ![current_idx + 1].untried_moves =
                               SubSeq(@, 1, Len(@) - 1)]
  IN [tree |-> Append([popped EXCEPT ![current_idx + 1].children =
                                      Append(@, [move |-> next_move, idx |-> new_node_idx])],
                      new_node),
      idx |-> new_node_idx]

RECURSIVE select_from_clone_leaf(_, _, _)
\* select_and_expand's loop that answers a node without moves and without
\* children with a new node of the same state.
select_from_clone_leaf(tree, current_idx, hash_order) ==
  LET node == tree[current_idx + 1]
  IN IF node.untried_moves # <<>> THEN expand(tree, current_idx, hash_order)
     ELSE IF node.children = <<>>
     THEN [tree |-> Append(tree, Node_new(current_idx, Frac(1, 1), node.game_state,
                                          hash_order)),
           idx |-> Len(tree)]
     ELSE select_from_clone_leaf(tree,
            node.children[MaxByScore(tree, node.children, node.visit_count, 2, 1)].idx,
            hash_order)

RECURSIVE select_from(_, _, _)
\* The loop of select_and_expand with current_idx as given.
select_from(tree, current_idx, hash_order) ==
  LET node == tree[current_idx + 1]
  IN IF node.untried_moves # <<>> THEN expand(tree, current_idx, hash_order)
     ELSE IF node.children = <<>> THEN [tree |-> tree, idx |-> current_idx]
     ELSE select_from(tree,
                      node.children[MaxByScore(tree, node.children, node.visit_count, 2, 1)].idx,
                      hash_order)

\* Mcts::select_and_expand: the arena after it and the index it returns.
select_and_expand(tree, hash_order) == select_from(tree, 0, hash_order)

\* backpropagation that updates the start node and stops.
backpropagation_leaf_only(tree, start_idx, scores) ==
  [tree EXCEPT ![start_idx + 1].visit_count = @ + 1,
               ![start_idx + 1].total_action_value =
                 @ + scores[tree[start_idx + 1].game_state.current_player_idx + 1]]

RECURSIVE backpropagation_reweighing(_, _, _)
\* backpropagation that also sets the prior to 1 / visit_count.
backpropagation_reweighing(tree, start_idx, scores) ==
  IF start_idx = NoIdx THEN tree
  ELSE LET node == tree[start_idx + 1]
           player_idx == node.game_state.current_player_idx
       IN backpropagation_reweighing(
            [tree EXCEPT ![start_idx + 1].visit_count = @ + 1,
                         ![start_idx + 1].total_action_value = @ + scores[player_idx + 1],
                         ![start_idx + 1].prior_probability = Frac(1, node.visit_count + 1)],
            node.parent, scores)

RECURSIVE backpropagation_skipping_leaf(_, _, _)
\* backpropagation that leaves out a node below the root that has no children.
backpropagation_skipping_leaf(tree, start_idx, scores) ==
  IF start_idx = NoIdx THEN tree
  ELSE LET node == tree[start_idx + 1]
           player_idx == node.game_state.current_player_idx
       IN backpropagation_skipping_leaf(
            IF node.children = <<>> /\ node.parent # NoIdx THEN tree
            ELSE [tree EXCEPT ![start_idx + 1].visit_count = @ + 1,
                              ![start_idx + 1].total_action_value = @ + scores[player_idx + 1]],
            node.parent, scores)

RECURSIVE backpropagation_below_root(_, _, _)
\* backpropagation that stops in front of the node without parent.
backpropagation_below_root(tree, start_idx, scores) ==
  IF start_idx = NoIdx \/ tree[start_idx + 1].parent = NoIdx THEN tree
  ELSE LET node == tree[start_idx + 1]
           player_idx == node.game_state.current_player_idx
       IN backpropagation_below_root(
            [tree EXCEPT ![start_idx + 1].visit_count = @ + 1,
                         ![start_idx + 1].total_action_value = @ + scores[player_idx + 1]],
            node.parent, scores)

RECURSIVE backpropagation(_, _, _)
\* Mcts::backpropagation.
backpropagation(tree, start_idx, scores) ==
  IF start_idx = NoIdx THEN tree
  ELSE LET node == tree[start_idx + 1]
           player_idx == node.game_state.current_player_idx
       IN backpropagation(
            [tree EXCEPT ![start_idx + 1].visit_count = @ + 1,
                         ![start_idx + 1].total_action_value = @ + scores[player_idx + 1]],
            node.parent, scores)

\* One pass of the loop of Mcts::run_search; scores is what simulate returned.
search_iteration(tree, scores, hash_order) ==
  LET sel == select_and_expand(tree, hash_order)
  IN backpropagation(sel.tree, sel.idx, scores)

(***************************************************************************)
(* MctsAI (ai/mcts_ai.rs): the search with untried actions, a score for    *)
(* every player in each node and UCT selection.  nodes is the arena,       *)
(* children hold arena indices.                                            *)
(*                                                                         *)
(* A UCT value is scores[p] / visits + 2 * sqrt(ln(N) / visits) in f64.    *)
(* It is kept as the triple [s, n, big_n] of the accumulated score s, the  *)
(* child's visits n and the parent's visits N.  Two values with the same n *)
(* and N are ordered by s.  Otherwise each is enclosed between two         *)
(* integers in units of 1 / UCT_SCALE, ln(N) being enclosed by LN_MICRO,   *)
(* and the order is taken from enclosures that do not meet; values whose   *)
(* enclosures meet are "Close" and a tree with such a pair is not searched *)
(* further.                                                                *)
(***************************************************************************)
MctsAI_create_root(game_state, hash_order) ==
  [nodes |-> <<[game_state |-> game_state,
                parent |-> NoIdx,
                children |-> <<>>,
                action |-> NoMove,
                untried_actions |-> get_legal_moves(game_state, hash_order),
                visits |-> 0,
                scores |-> [i \in 1..Len(game_state.players) |-> 0]]>>,
   root_idx |-> 0]

\* sync_with_game_state that finds the child and leaves root_idx where it was.
MctsAI_sync_root_stays(ai, game_state, hash_order) ==
  IF ai.nodes = <<>> THEN MctsAI_create_root(game_state, hash_order)
  ELSE LET children == ai.nodes[ai.root_idx + 1].children
           found == {k \in DOMAIN children :
                       ai.nodes[children[k] + 1].game_state.players = game_state.players}
       IN IF found # {}
            THEN [nodes |-> ai.nodes, root_idx |-> ai.root_idx]
            ELSE MctsAI_create_root(game_state, hash_order)

\* sync_with_game_state that moves the root and leaves its parent link.
MctsAI_sync_parent_kept(ai, game_state, hash_order) ==
  IF ai.nodes = <<>> THEN MctsAI_create_root(game_state, hash_order)
  ELSE LET children == ai.nodes[ai.root_idx + 1].children
           found == {k \in DOMAIN children :
                       ai.nodes[children[k] + 1].game_state.players = game_state.players}
       IN IF found # {}
            THEN LET child_idx == children[CHOOSE k \in found : \A j \in found : k <= j]
                 IN [nodes |-> ai.nodes, root_idx |-> child_idx]
            ELSE MctsAI_create_root(game_state, hash_order)

\* MctsAI::sync_with_game_state on the agent ai = [nodes, root_idx].
MctsAI_sync_with_game_state(ai, game_state, hash_order) ==
  IF ai.nodes = <<>> THEN MctsAI_create_root(game_state, hash_order)
  ELSE LET children == ai.nodes[ai.root_idx + 1].children
           found == {k \in DOMAIN children :
                       ai.nodes[children[k] + 1].game_state.players = game_state.players}
       IN IF found # {}
            THEN LET child_idx == children[CHOOSE k \in found : \A j \in found : k <= j]
                 IN [nodes |-> [ai.nodes EXCEPT ![child_idx + 1].parent = NoIdx],
                     root_idx |-> child_idx]
            ELSE MctsAI_create_root(game_state, hash_order)

\* floor(ln(N) * 10^6) for N = 1, 2, ...; ln(1) is 0 exactly.
LN_MICRO == <<0, 693147, 1098612, 1386294, 1609437, 1791759, 1945910, 2079441,
              2197224, 2302585, 2397895, 2484906>>

UCT_SCALE == 10000

RECURSIVE IsqrtBetween(_, _, _)
\* The greatest r of lo..hi with r * r <= x.
IsqrtBetween(x, lo, hi) ==
  IF lo = hi THEN lo
  ELSE LET mid == (lo + hi + 1) \div 2
       IN IF mid * mid <= x THEN IsqrtBetween(x, mid, hi) ELSE IsqrtBetween(x, lo, mid - 1)

Isqrt(x) == IsqrtBetween(x, 0, 46340)

\* UCT_SCALE * 2 * sqrt(ln(N) / n) = sqrt(400 * ln(N) * 10^6 / n), from below
\* and from above.
ExplorationLow(n, big_n) == Isqrt((400 * LN_MICRO[big_n]) \div n)

ExplorationHigh(n, big_n) ==
  IF big_n = 1 THEN 0 ELSE Isqrt((400 * (LN_MICRO[big_n] + 1)) \div n + 1) + 1

UctLow(v) == (v.s * UCT_SCALE) \div v.n + ExplorationLow(v.n, v.big_n)

UctHigh(v) == (v.s * UCT_SCALE) \div v.n + 1 + ExplorationHigh(v.n, v.big_n)

\* partial_cmp of two UCT values under the same parent; visits 0 is INFINITY.
UctCompare(a, b) ==
  IF a.n = 0 /\ b.n = 0 THEN "Equal"
  ELSE IF a.n = 0 THEN "Greater"
  ELSE IF b.n = 0 THEN "Less"
  ELSE IF a.n = b.n
    THEN (IF a.s > b.s THEN "Greater" ELSE IF a.s < b.s THEN "Less" ELSE "Equal")
  ELSE IF UctLow(a) > UctHigh(b) THEN "Greater"
  ELSE IF UctLow(b) > UctHigh(a) THEN "Less"
  ELSE "Close"

\* The closure uct with the child's own player in place of the parent's.
uct_own_player(nodes, current_index, child_index) ==
  LET child == nodes[child_index + 1]
  IN [s |-> child.scores[child.game_state.current_player_idx + 1],
      n |-> child.visits,
      big_n |-> nodes[current_index + 1].visits]

\* The closure uct of select_and_expand at node current_index.
uct(nodes, current_index, child_index) ==
  LET node == nodes[current_index + 1]
      child == nodes[child_index + 1]
  IN [s |-> child.scores[node.game_state.current_player_idx + 1],
      n |-> child.visits,
      big_n |-> node.visits]

RECURSIVE MaxByUct(_, _, _, _)
\* Iterator::max_by over children[k..]: the position of the last of the
\* greatest children.
MaxByUct(nodes, current_index, k, best) ==
  LET children == nodes[current_index + 1].children
  IN IF k > Len(children) THEN best
     ELSE MaxByUct(nodes, current_index, k + 1,
            IF UctCompare(uct(nodes, current_index, children[best]),
                          uct(nodes, current_index, children[k])) = "Greater"
            THEN best ELSE k)

\* The child select_and_expand moves to from current_index.
uct_best_child(nodes, current_index) ==
  nodes[current_index + 1].children[MaxByUct(nodes, current_index, 2, 1)]

\* MctsAI::expand.
MctsAI_expand(nodes, node_index, hash_order) ==
  LET node == nodes[node_index + 1]
      action_to_try == node.untried_actions[Len(node.untried_actions)]
      new_state == apply_move(node.game_state, action_to_try)
      new_node == [game_state |-> new_state,
                   parent |-> node_index,
                   children |-> <<>>,
                   action |-> action_to_try,
                   untried_actions |-> get_legal_moves(new_state, hash_order),
                   visits |-> 0,
                   scores |-> [i \in 1..Len(nodes[1].game_state.players) |-> 0]]
      new_index == Len(nodes)
  IN [nodes |-> Append([nodes EXCEPT
                          ![node_index + 1].untried_actions = SubSeq(@, 1, Len(@) - 1),
                          ![node_index + 1].children = Append(@, new_index)],
                       new_node),
      idx |-> new_index]

RECURSIVE MctsAI_select_from(_, _, _)
\* The loop of MctsAI::select_and_expand with current_index as given.
MctsAI_select_from(nodes, current_index, hash_order) ==
  LET node == nodes[current_index + 1]
  IN IF node.untried_actions # <<>> THEN MctsAI_expand(nodes, current_index, hash_order)
     ELSE IF node.children = <<>> THEN [nodes |-> nodes, idx |-> current_index]
     ELSE MctsAI_select_from(nodes, uct_best_child(nodes, current_index), hash_order)

\* MctsAI::select_and_expand.
MctsAI_select_and_expand(ai, hash_order) ==
  MctsAI_select_from(ai.nodes, ai.root_idx, hash_order)

RECURSIVE MctsAI_select_reads(_, _)
\* The arena indices the loop of MctsAI::select_and_expand indexes from
\* current_index on: the node, the children whose uct is compared, and in
\* expand the node and entry 0 (for the number of players).
MctsAI_select_reads(nodes, current_index) ==
  LET node == nodes[current_index + 1]
  IN IF node.untried_actions # <<>> THEN {current_index, 0}
     ELSE IF node.children = <<>> THEN {current_index}
     ELSE {current_index} \cup Range(node.children)
            \cup MctsAI_select_reads(nodes, uct_best_child(nodes, current_index))

RECURSIVE MctsAI_backpropagate_reads(_, _)
\* The arena indices MctsAI::backpropagate indexes from start_index on.
MctsAI_backpropagate_reads(nodes, start_index) ==
  IF start_index = NoIdx THEN {}
  ELSE {start_index} \cup MctsAI_backpropagate_reads(nodes, nodes[start_index + 1].parent)

RECURSIVE MctsAI_backpropagate_crediting_first(_, _, _)
\* backpropagate that, past the node without parent, also credits entry 0.
MctsAI_backpropagate_crediting_first(nodes, start_index, final_scores) ==
  IF start_index = NoIdx
    THEN [nodes EXCEPT ![1].visits = @ + 1]
  ELSE MctsAI_backpropagate_crediting_first(
         [nodes EXCEPT ![start_index + 1].visits = @ + 1,
                       ![start_index + 1].scores =
                          [i \in DOMAIN @ |-> IF i \in DOMAIN final_scores
                                                THEN @[i] + final_scores[i] ELSE @[i]]],
         nodes[start_index + 1].parent, final_scores)

RECURSIVE MctsAI_backpropagate(_, _, _)
\* MctsAI::backpropagate.
MctsAI_backpropagate(nodes, start_index, final_scores) ==
  IF start_index = NoIdx THEN nodes
  ELSE MctsAI_backpropagate(
         [nodes EXCEPT ![start_index + 1].visits = @ + 1,
                       ![start_index + 1].scores =
                          [i \in DOMAIN @ |-> IF i \in DOMAIN final_scores
                                                THEN @[i] + final_scores[i] ELSE @[i]]],
         nodes[start_index + 1].parent, final_scores)

\* The end of MctsAI::get_move: the action of the most visited child of the
\* root (max_by_key: the last of them), None without children.
MctsAI_best_action(ai) ==
  LET children == ai.nodes[ai.root_idx + 1].children
  IN IF children = <<>> THEN NoMove
     ELSE LET most == CHOOSE k \in DOMAIN children :
                        /\ \A j \in DOMAIN children :
                             ai.nodes[children[j] + 1].visits <= ai.nodes[children[k] + 1].visits
                        /\ \A j \in DOMAIN children :
                             ai.nodes[children[j] + 1].visits = ai.nodes[children[k] + 1].visits
                               => j <= k
          IN ai.nodes[children[most] + 1].action

\* HeuristicPolicy::evaluate: the value and the policy map, scores being what
\* run_simulation returned for game_state.  run_search never calls it.
HeuristicPolicy_evaluate(game_state, scores, hash_order) ==
  LET legal_moves == get_legal_moves(game_state, hash_order)
      probability == IF legal_moves = <<>> THEN Frac(0, 1) ELSE Frac(1, Len(legal_moves))
  IN [value |-> scores[game_state.current_player_idx + 1],
      policy |-> [m \in Range(legal_moves) |-> probability]]

(***************************************************************************)
(* The policy masking of the network agent (ai/mcts_nn_ai.rs).             *)
(***************************************************************************)
NUM_FACTORIES == 9

NUM_COLORS == 5

POLICY_SIZE == (NUM_FACTORIES * NUM_COLORS) + NUM_COLORS

color_to_index(tile) == (CHOOSE i \in 1..Len(AllColors) : AllColors[i] = tile) - 1

\* move_to_policy_index with the centre given the slots of factory 0.
move_to_policy_index_centre_at_zero(move_tile, move_source) ==
  LET color_idx == color_to_index(move_tile)
  IN IF move_source.kind = "Factory" THEN move_source.idx * NUM_COLORS + color_idx
     ELSE color_idx

\* Always Some(index): the index.
move_to_policy_index(move_tile, move_source) ==
  LET color_idx == color_to_index(move_tile)
  IN IF move_source.kind = "Factory" THEN move_source.idx * NUM_COLORS + color_idx
     ELSE NUM_FACTORIES * NUM_COLORS + color_idx

RECURSIVE SumOver(_, _)
\* The sum of f over the finite set S.
SumOver(f, S) ==
  IF S = {} THEN 0
  ELSE LET x == CHOOSE x \in S : TRUE IN f[x] + SumOver(f, S \ {x})

\* mask_and_normalize_policy without its last step, the uniform fallback.
mask_without_fallback(legal_moves, raw_policy) ==
  LET in_range == {tk \in {<<legal_moves[k].source, legal_moves[k].tile>> :
                             k \in DOMAIN legal_moves} :
                     move_to_policy_index(tk[2], tk[1]) < Len(raw_policy)}
      masked_policy == [tk \in in_range |->
                          Max(raw_policy[move_to_policy_index(tk[2], tk[1]) + 1], 0)]
      total_prob == SumOver(masked_policy, in_range)
  IN IF total_prob > 0
     THEN [m \in {m \in Range(legal_moves) : <<m.source, m.tile>> \in in_range} |->
             Frac(masked_policy[<<m.source, m.tile>>], total_prob)]
     ELSE [m \in {} |-> Frac(0, 1)]

\* NnPolicy::mask_and_normalize_policy.  raw_policy holds integers (f32 values
\* without a fraction); the map returned is a function from moves to exact
\* fractions, and the empty map is the function with the empty domain.
mask_and_normalize_policy(legal_moves, raw_policy) ==
  LET unique_takes == {<<legal_moves[k].source, legal_moves[k].tile>> : k \in DOMAIN legal_moves}
      in_range == {tk \in unique_takes :
                     move_to_policy_index(tk[2], tk[1]) < Len(raw_policy)}
      masked_policy == [tk \in in_range |->
                          Max(raw_policy[move_to_policy_index(tk[2], tk[1]) + 1], 0)]
      total_prob == SumOver(masked_policy, in_range)
      final_policy ==
        IF total_prob > 0
        THEN [m \in {m \in Range(legal_moves) : <<m.source, m.tile>> \in in_range} |->
                Frac(masked_policy[<<m.source, m.tile>>], total_prob)]
        ELSE [m \in {} |-> Frac(0, 1)]
  IN IF DOMAIN final_policy = {} /\ legal_moves # <<>>
     THEN [m \in Range(legal_moves) |-> Frac(1, Len(legal_moves))]
     ELSE final_policy

\* The layout of the network's input vector.
MAX_CENTER_TILES == 27

MAX_PLAYERS == 4

PATTERN_LINE_SLOTS == 5 * 5

WALL_SLOTS == 5 * 5

FLOOR_SLOTS == 7

PLAYER_SLOTS == 1 + PATTERN_LINE_SLOTS + WALL_SLOTS + FLOOR_SLOTS + 1

INPUT_SIZE == (NUM_FACTORIES * NUM_COLORS * 4) + (MAX_CENTER_TILES * NUM_COLORS)
              + (MAX_PLAYERS * PLAYER_SLOTS) + 1

\* The entries state_to_input writes for one player, o the offset inside the
\* player's block: score / 100, pattern lines, wall, floor line, marker.
player_input(player, o) ==
  LET l == o - 1
      w == l - PATTERN_LINE_SLOTS
      f == w - WALL_SLOTS
  IN IF o = 0 THEN Frac(player.score, 100)
     ELSE IF l < PATTERN_LINE_SLOTS
       THEN (IF (l % 5) < Len(player.pattern_lines[(l \div 5) + 1]) THEN Frac(1, 1) ELSE Frac(0, 1))
     ELSE IF w < WALL_SLOTS
       THEN (IF player.wall[(w \div 5) + 1][(w % 5) + 1] # "None" THEN Frac(1, 1) ELSE Frac(0, 1))
     ELSE IF f < FLOOR_SLOTS
       THEN (IF f < Min(Len(player.floor_line), FLOOR_SLOTS) THEN Frac(1, 1) ELSE Frac(0, 1))
     ELSE IF player.has_first_player_marker THEN Frac(1, 1) ELSE Frac(0, 1)

\* NnPolicy::state_to_input: a vector of INPUT_SIZE entries, entry k of the
\* source at k + 1.  Factories and players are read with Vec::get, so a missing
\* one leaves its block at 0.0 and one past the NUM_FACTORIES-th or the
\* MAX_PLAYERS-th is never read; no index leaves the vector.
state_to_input(game_state) ==
  LET factory_slots == NUM_FACTORIES * NUM_COLORS * 4
      center_slots == MAX_CENTER_TILES * NUM_COLORS
      player_offset == factory_slots + center_slots
      entry(k) ==
        IF k < factory_slots
          THEN LET factory_idx == k \div (NUM_COLORS * 4)
                   color_idx == (k % (NUM_COLORS * 4)) \div 4
                   slot == k % 4
               IN IF /\ factory_idx < Len(game_state.factories)
                     /\ slot < CountTile(game_state.factories[factory_idx + 1], AllColors[color_idx + 1])
                    THEN Frac(1, 1) ELSE Frac(0, 1)
        ELSE IF k < player_offset
          THEN LET i == (k - factory_slots) \div NUM_COLORS
                   color_idx == (k - factory_slots) % NUM_COLORS
               IN IF /\ i < Len(game_state.center)
                     /\ color_to_index(game_state.center[i + 1]) = color_idx
                    THEN Frac(1, 1) ELSE Frac(0, 1)
        ELSE IF k < player_offset + MAX_PLAYERS * PLAYER_SLOTS
          THEN LET player_idx == (k - player_offset) \div PLAYER_SLOTS
               IN IF player_idx < Len(game_state.players)
                    THEN player_input(game_state.players[player_idx + 1],
                                      (k - player_offset) % PLAYER_SLOTS)
                    ELSE Frac(0, 1)
        ELSE Frac(game_state.current_player_idx + 1, MAX_PLAYERS)
  IN <<>> \o [i \in 1..INPUT_SIZE |-> entry(i - 1)]

(***************************************************************************)
(* Bounds of the model.                                                    *)
(***************************************************************************)
\* MctsHeuristicAI.iterations (WasmGame::new passes 500).
Iterations == 5

\* Number of get_move calls followed.
MaxCalls == 2

\* Seeds of thread_rng followed by refill_factories during a game are 0..MaxSeed.
MaxSeed == 0

\* Seeds of the games whose positions are given to the policy masking.
MaxPolicySeed == 1

NumPlayers == 2

\* HashSet iteration orders followed: the colours in declaration order and reversed.
HashOrders == {AllColors, [i \in 1..Len(AllColors) |-> AllColors[Len(AllColors) + 1 - i]]}

\* What simulate returns is the final score of every player of a playout with
\* random refills; the vectors followed.
SimOutcomes == {<<0, 1>>, <<1, 0>>}

\* The seat of the MctsHeuristicAI agent; the other seat is a HumanAgent.
MctsSeat == 0

(***************************************************************************)
(* Game positions the program starts from or passes through.               *)
(***************************************************************************)
\* GameState::new(num_players) with the factory count of the match in it.
GameState_new(num_players, seed) ==
  LET num_factories == CASE num_players = 2 -> 5
                         [] num_players = 3 -> 7
                         [] num_players = 4 -> 9
  IN refill_factories(
       [players |-> [p \in 1..num_players |-> PlayerBoard_new],
        factories |-> [f \in 1..num_factories |-> <<>>],
        center |-> <<>>,
        tile_bag |-> [t \in Tile |-> TILES_PER_COLOR],
        discard_pile |-> EmptyCounts,
        current_player_idx |-> 0,
        first_player_marker_in_center |-> TRUE,
        end_game_triggered |-> FALSE],
       seed)

\* A position of the second round of a two-player game, player 0 to move.
\* Round 1 deals BYYY, BBBR, RRRK, KKKW, YWWW.  Player 0 takes the Blue of
\* factory 0 to line 0, the Blue of factory 1 to line 1 and the first tiles from
\* the centre; every other tile of the round goes to a floor line.  The tiling
\* puts two Blue tiles on player 0's wall, leaves both scores at 0, discards four
\* tiles of each colour and makes player 0 the starter.  Round 2 deals BBYY,
\* BRRR, BKKK, WWWW, BBBB; player 0 takes YY to line 2, player 1 KKK to line 3,
\* player 0 RRR to line 3, player 1 WWWW to line 4.  Four Blue tiles now lie in
\* the centre with the marker and four in the last factory.
RoundTwoPosition ==
  LET p0 == [PlayerBoard_new EXCEPT
               !.wall[1][1] = "Blue",
               !.wall[2][2] = "Blue",
               !.pattern_lines[3] = <<"Yellow", "Yellow">>,
               !.pattern_lines[4] = <<"Red", "Red", "Red">>]
      p1 == [PlayerBoard_new EXCEPT
               !.pattern_lines[4] = <<"Black", "Black", "Black">>,
               !.pattern_lines[5] = <<"White", "White", "White", "White">>]
  IN [players |-> <<p0, p1>>,
      factories |-> <<<<>>, <<>>, <<>>, <<>>, <<"Blue", "Blue", "Blue", "Blue">>>>,
      center |-> <<"Blue", "Blue", "Blue", "Blue">>,
      tile_bag |-> [t \in Tile |-> CASE t = "Blue" -> 8 [] t = "Yellow" -> 14
                                     [] t = "White" -> 12 [] OTHER -> 13],
      discard_pile |-> [t \in Tile |-> 4],
      current_player_idx |-> 0,
      first_player_marker_in_center |-> TRUE,
      end_game_triggered |-> FALSE]

\* The first position of the second round of a two-player game, player 0 to
\* move.  Round 1 deals WWYY, RRRK, YYYK, KKKK, BBBB.  Player 0 takes WW to line
\* 1, YY from the centre (with the marker) to line 2, RRR to line 3 and YYY to
\* line 4; player 1 takes KKKK to line 3, BBBB to line 4, K from the centre to
\* line 0 and K from the centre to line 1.  The tiling puts White on row 1 of
\* player 0's wall, Black on rows 0 and 3 of player 1's, and discards two White
\* and five Black tiles.  Round 2 deals KKWW, BBBB, BBBB, BBBB, BBBB.
ExactFillPosition ==
  LET p0 == [PlayerBoard_new EXCEPT
               !.wall[2][1] = "White",
               !.pattern_lines[3] = <<"Yellow", "Yellow">>,
               !.pattern_lines[4] = <<"Red", "Red", "Red">>,
               !.pattern_lines[5] = <<"Yellow", "Yellow", "Yellow">>]
      p1 == [PlayerBoard_new EXCEPT
               !.score = 2,
               !.wall[1][4] = "Black",
               !.wall[4][2] = "Black",
               !.pattern_lines[2] = <<"Black">>,
               !.pattern_lines[5] = <<"Blue", "Blue", "Blue", "Blue">>]
      blues == <<"Blue", "Blue", "Blue", "Blue">>
  IN [players |-> <<p0, p1>>,
      factories |-> <<<<"Black", "Black", "White", "White">>, blues, blues, blues, blues>>,
      center |-> <<>>,
      tile_bag |-> [t \in Tile |-> CASE t = "Blue" -> 0 [] t = "Yellow" -> 15
                                     [] t = "Red" -> 17 [] t = "Black" -> 12
                                     [] t = "White" -> 16],
      discard_pile |-> [t \in Tile |-> CASE t = "Black" -> 5 [] t = "White" -> 2
                                         [] OTHER -> 0],
      current_player_idx |-> 0,
      first_player_marker_in_center |-> TRUE,
      end_game_triggered |-> FALSE]

(***************************************************************************)
(* The program: a WasmGame whose seat MctsSeat is a MctsHeuristicAI.       *)
(***************************************************************************)
VARIABLES
  state,       \* WasmGame.state
  tree,        \* MctsHeuristicAI.mcts: <<>> is None, else the arena of the Mcts
  pc,          \* "idle", or "search" while get_move is in the loop of run_search
  iter,        \* passes of that loop completed in the current get_move
  hash_order,  \* HashSet iteration order during the current get_move
  call_state,  \* the game_state argument of the current or latest get_move
  returned,    \* what the latest get_move returned
  calls,       \* get_move calls begun
  sync_info,   \* what the latest sync_tree_with_state found in the tree it was given
  root_leaf,   \* passes of the current run_search in which select_and_expand returned the root
  policy,      \* NnPolicy::mask_and_normalize_policy: its arguments and its result
  ended,       \* for every node of tree, the passes of run_search that ended at it
  sim,         \* HeuristicPolicy::run_simulation: sim_state, where it is, its result
  encoding,    \* a GameState asked for, built and given to NnPolicy::state_to_input
  mcts_ai      \* an MctsAI: nodes, root_idx, and where its get_move is

vars == <<state, tree, pc, iter, hash_order, call_state, returned, calls,
          sync_info, root_leaf, policy,
                 ended, sim, encoding, mcts_ai>>

NoSync == [matched |-> FALSE, old_len |-> 0, child |-> <<>>, subtree_size |-> 0]

RECURSIVE SubtreeSize(_, _)
\* Number of nodes of the subtree of arena t below and including node idx.
SubtreeSize(t, idx) ==
  1 + SumSeq([k \in DOMAIN t[idx + 1].children |->
                SubtreeSize(t, t[idx + 1].children[k].idx)])

Init ==
  /\ state \in {GameState_new(NumPlayers, seed) : seed \in 0..MaxSeed}
                 \cup {RoundTwoPosition}
  /\ tree = <<>>
  /\ pc = "idle"
  /\ iter = 0
  /\ hash_order = AllColors
  /\ call_state = state
  /\ returned = NoMove
  /\ calls = 0
  /\ sync_info = NoSync
  /\ root_leaf = 0
  /\ policy = <<>>
  /\ ended = <<>>
  /\ sim = <<>>
  /\ encoding = <<>>
  /\ mcts_ai = <<>>

\* WasmGame::run_ai_turn up to the loop of run_search: MctsHeuristicAI::get_move
\* creates the Mcts when there is none and calls sync_tree_with_state.
RunAiTurnBegin ==
  /\ pc = "idle"
  /\ calls < MaxCalls
  /\ state.current_player_idx = MctsSeat
  /\ \E h \in HashOrders :
       LET mcts == IF tree = <<>> THEN Mcts_new(state, h) ELSE tree
           child_idx == find_root_child(mcts, state)
       IN /\ hash_order' = h
          /\ tree' = sync_tree_with_state(mcts, state, h)
          /\ sync_info' = [matched |-> child_idx # NoIdx,
                           old_len |-> Len(mcts),
                           child |-> IF child_idx # NoIdx THEN <<mcts[child_idx + 1]>>
                                     ELSE <<>>,
                           subtree_size |-> IF child_idx # NoIdx
                                            THEN SubtreeSize(mcts, child_idx) ELSE 0]
  /\ call_state' = state
  /\ calls' = calls + 1
  /\ pc' = "search"
  /\ iter' = 0
  /\ root_leaf' = 0
  /\ ended' = [i \in DOMAIN tree' |-> 0]
  /\ UNCHANGED <<state, returned, policy, sim, encoding, mcts_ai>>

\* One pass of the loop of run_search.
Iterate ==
  /\ pc = "search"
  /\ iter < Iterations
  /\ \E scores \in SimOutcomes :
       /\ tree' = search_iteration(tree, scores, hash_order)
       /\ root_leaf' = root_leaf
                         + (IF select_and_expand(tree, hash_order).idx = 0 THEN 1 ELSE 0)
  /\ iter' = iter + 1
  /\ ended' = [i \in DOMAIN tree' |->
                 (IF i \in DOMAIN ended THEN ended[i] ELSE 0)
                   + (IF select_and_expand(tree, hash_order).idx = i - 1 THEN 1 ELSE 0)]
  /\ UNCHANGED <<state, pc, hash_order, call_state, returned, calls, sync_info, policy, sim, encoding, mcts_ai>>

\* The rest of run_ai_turn: best_move, and apply_move when it is Some.
RunAiTurnEnd ==
  /\ pc = "search"
  /\ iter = Iterations
  /\ returned' = best_move(tree)
  /\ state' = IF best_move(tree) # NoMove THEN apply_move(state, best_move(tree))
              ELSE state
  /\ pc' = "idle"
  /\ UNCHANGED <<tree, iter, hash_order, call_state, calls, sync_info, root_leaf, policy,
                 ended, sim, encoding, mcts_ai>>

\* The moves the person at the other seat is followed playing: the first and the
\* last of the legal moves.
HumanPicks(moves) == {moves[1], moves[Len(moves)]}

\* WasmGame::apply_move with a move from getLegalMoves.
ApplyMove ==
  /\ pc = "idle"
  /\ state.current_player_idx # MctsSeat
  /\ get_legal_moves(state, AllColors) # <<>>
  /\ \E player_move \in HumanPicks(get_legal_moves(state, AllColors)) :
       state' = apply_move(state, player_move)
  /\ UNCHANGED <<tree, pc, iter, hash_order, call_state, returned, calls,
                 sync_info, root_leaf, policy,
                 ended, sim, encoding, mcts_ai>>

\* WasmGame::handle_round_end (nothing happens unless the round is over).
HandleRoundEnd ==
  /\ pc = "idle"
  /\ is_round_over(state)
  /\ \E seed \in 0..MaxSeed :
       LET tiled == run_tiling_phase(state)
       IN state' = IF ~tiled.end_game_triggered THEN refill_factories(tiled, seed)
                   ELSE tiled
  /\ UNCHANGED <<tree, pc, iter, hash_order, call_state, returned, calls,
                 sync_info, root_leaf, policy,
                 ended, sim, encoding, mcts_ai>>

Next ==
  \/ RunAiTurnBegin
  \/ Iterate
  \/ RunAiTurnEnd
  \/ ApplyMove
  \/ HandleRoundEnd

Spec == Init /\ [][Next]_vars

(***************************************************************************)
(* mask_and_normalize_policy on its own: NnPolicy::evaluate gives it the   *)
(* legal moves of a position and the policy head of the network.           *)
(***************************************************************************)
\* Values the slots of the network's policy head are followed taking.
RawValues == {-1, 0, 1, 2}

\* Slot i of a raw policy holds vals[(i % 3) + 1].
RawPolicy(vals) == [i \in 1..POLICY_SIZE |-> vals[((i - 1) % 3) + 1]]

\* Positions whose legal moves are masked: the starts of a game, the position of
\* the second round, and what player 0's first legal move makes of each.
PolicyPositions ==
  LET starts == {GameState_new(NumPlayers, seed) : seed \in 0..MaxPolicySeed}
                  \cup {RoundTwoPosition}
  IN starts \cup {apply_move(gs, get_legal_moves(gs, AllColors)[1]) : gs \in starts}

InitPolicy ==
  /\ state \in PolicyPositions
  /\ hash_order \in HashOrders
  /\ \E vals \in RawValues \X RawValues \X RawValues :
       policy = [legal_moves |-> get_legal_moves(state, hash_order),
                 raw_policy |-> RawPolicy(vals),
                 done |-> FALSE,
                 final_policy |-> <<>>]
  /\ tree = <<>>
  /\ pc = "idle"
  /\ iter = 0
  /\ call_state = state
  /\ returned = NoMove
  /\ calls = 0
  /\ sync_info = NoSync
  /\ root_leaf = 0
  /\ ended = <<>>
  /\ sim = <<>>
  /\ encoding = <<>>
  /\ mcts_ai = <<>>

MaskAndNormalize ==
  /\ policy # <<>>
  /\ ~policy.done
  /\ policy' = [policy EXCEPT
                  !.done = TRUE,
                  !.final_policy = mask_and_normalize_policy(policy.legal_moves,
                                                             policy.raw_policy)]
  /\ UNCHANGED <<state, tree, pc, iter, hash_order, call_state, returned, calls,
                 sync_info, root_leaf, ended, sim, encoding, mcts_ai>>

NextPolicy == MaskAndNormalize

SpecPolicy == InitPolicy /\ [][NextPolicy]_vars

(***************************************************************************)
(* HeuristicPolicy::run_simulation on its own, followed one pass of its    *)
(* loop at a time.  MctsAI::simulate (ai/mcts_ai.rs) is the same loop.     *)
(***************************************************************************)
\* Seeds of thread_rng a playout is followed with.
MaxRolloutSeed == 1

\* Positions a playout starts from: the states of the nodes of a tree.
RolloutPositions ==
  {GameState_new(NumPlayers, seed) : seed \in 0..MaxRolloutSeed}
    \cup {RoundTwoPosition, ExactFillPosition}

InitRollout ==
  /\ sim \in {[sim_state |-> gs, at |-> "loop", passes |-> 0, left_loop |-> gs,
               scores |-> <<>>, last |-> NoMove] : gs \in RolloutPositions}
  /\ state = sim.sim_state
  /\ tree = <<>>
  /\ pc = "idle"
  /\ iter = 0
  /\ hash_order \in HashOrders
  /\ call_state = state
  /\ returned = NoMove
  /\ calls = 0
  /\ sync_info = NoSync
  /\ root_leaf = 0
  /\ policy = <<>>
  /\ ended = <<>>
  /\ encoding = <<>>
  /\ mcts_ai = <<>>

RolloutUnchanged ==
  UNCHANGED <<state, tree, pc, iter, hash_order, call_state, returned, calls,
              sync_info, root_leaf, policy, ended, encoding, mcts_ai>>

\* A pass of the loop in which the round is over: tiling, refill, continue.
SimRoundEnd ==
  /\ sim.at = "loop"
  /\ ~sim.sim_state.end_game_triggered
  /\ is_round_over(sim.sim_state)
  /\ \E seed \in 0..MaxRolloutSeed :
       sim' = [sim EXCEPT
                 !.sim_state = refill_factories(run_tiling_phase(sim.sim_state), seed),
                 !.passes = @ + 1]
  /\ RolloutUnchanged

\* A pass of the loop in which the simulation agent is asked for a move.
SimMove ==
  /\ sim.at = "loop"
  /\ ~sim.sim_state.end_game_triggered
  /\ ~is_round_over(sim.sim_state)
  /\ LET best_move_found == HeuristicAI_get_move(sim.sim_state, hash_order)
     IN sim' = IF best_move_found # NoMove
               THEN [sim EXCEPT !.sim_state = apply_move(sim.sim_state, best_move_found),
                                !.last = best_move_found,
                                !.passes = @ + 1]
               ELSE [sim EXCEPT !.at = "break", !.passes = @ + 1]
  /\ RolloutUnchanged

\* After the loop: the final tiling, the end-game scoring and the scores returned.
\* left_loop keeps the state the loop was left with.
SimFinish ==
  /\ \/ sim.at = "break"
     \/ sim.at = "loop" /\ sim.sim_state.end_game_triggered
  /\ LET final == apply_end_game_scoring(run_tiling_phase(sim.sim_state))
     IN sim' = [sim EXCEPT !.sim_state = final,
                           !.at = "done",
                           !.left_loop = sim.sim_state,
                           !.scores = [p \in DOMAIN final.players |-> final.players[p].score]]
  /\ RolloutUnchanged

NextRollout ==
  \/ SimRoundEnd
  \/ SimMove
  \/ SimFinish

SpecRollout == InitRollout /\ [][NextRollout]_vars

(***************************************************************************)
(* Building a GameState and encoding it for the network (lib.rs,           *)
(* ai/mcts_nn_ai.rs).  GameState::new is asked for a number of players; a  *)
(* state it built is played on for at most MaxEncodeMoves moves.  The      *)
(* fields of GameState are public and the struct is Deserialize, so the    *)
(* holder of a state (or a saved state read back) can carry any number of  *)
(* PlayerBoards in players: WritePlayers.  MctsNnAI::state_to_input is     *)
(* public and takes whichever GameState it is handed.                      *)
(***************************************************************************)
MaxPlayerCount == 5

MaxEncodeSeed == 1

MaxEncodeMoves == 1

\* GameState::new: the match on num_players ends in panic!("Invalid number of
\* players.") for every count but 2, 3 and 4.
GameState_new_halts(num_players) == num_players \notin {2, 3, 4}

InitEncode ==
  /\ encoding \in {[num_players |-> n, seed |-> sd, at |-> "new", game |-> <<>>,
                    moves |-> 0, input |-> <<>>] :
                     n \in 0..MaxPlayerCount, sd \in 0..MaxEncodeSeed}
  /\ state = [game_state |-> GameState_new(NumPlayers, 0), agents |-> <<>>]
  /\ tree = <<>>
  /\ pc = "idle"
  /\ iter = 0
  /\ hash_order = AllColors
  /\ call_state = state.game_state
  /\ returned = NoMove
  /\ calls = 0
  /\ sync_info = [kind |-> "none", old_root |-> NoIdx, old_len |-> 0, pos |-> 0]
  /\ root_leaf = <<>>
  /\ policy = <<>>
  /\ ended = <<>>
  /\ sim = <<>>
  /\ mcts_ai = <<>>

EncodeUnchanged ==
  UNCHANGED <<state, tree, pc, iter, hash_order, call_state, returned, calls,
              sync_info, root_leaf, policy, ended, sim, mcts_ai>>

\* GameState::new(num_players).
GameStateNew ==
  /\ encoding.at = "new"
  /\ encoding' = IF GameState_new_halts(encoding.num_players)
                   THEN [encoding EXCEPT !.at = "halted"]
                   ELSE [encoding EXCEPT
                           !.at = "built",
                           !.game = <<GameState_new(encoding.num_players, encoding.seed)>>]
  /\ EncodeUnchanged

\* apply_move with one of the legal moves.
EncodeMove ==
  /\ encoding.at = "built"
  /\ encoding.moves < MaxEncodeMoves
  /\ \E m \in Range(get_legal_moves(encoding.game[1], hash_order)) :
       encoding' = [encoding EXCEPT !.game = <<apply_move(encoding.game[1], m)>>,
                                    !.moves = @ + 1]
  /\ EncodeUnchanged

\* The holder of the state gives players another length through the public
\* field: boards past the new length are dropped, missing ones are new.
WritePlayers ==
  /\ encoding.at = "built"
  /\ \E k \in 0..MaxPlayerCount :
       /\ k # Len(encoding.game[1].players)
       /\ encoding' = [encoding EXCEPT
            !.at = "written",
            !.game = <<[encoding.game[1] EXCEPT !.players =
                          [p \in 1..k |-> IF p <= Len(encoding.game[1].players)
                                            THEN encoding.game[1].players[p]
                                            ELSE PlayerBoard_new]]>>]
  /\ EncodeUnchanged

\* MctsNnAI::state_to_input(&game_state) through NnPolicy::state_to_input.
StateToInput ==
  /\ encoding.at \in {"built", "written"}
  /\ encoding' = [encoding EXCEPT !.at = "encoded",
                                  !.input = state_to_input(encoding.game[1])]
  /\ EncodeUnchanged

NextEncode ==
  \/ GameStateNew
  \/ EncodeMove
  \/ WritePlayers
  \/ StateToInput

SpecEncode == InitEncode /\ [][NextEncode]_vars

(***************************************************************************)
(* A new MctsAI on one seat of a two-player game that is played as the     *)
(* loop of run_game (bin/headless.rs) plays it; the other seat answers     *)
(* with any legal move.  MctsAI::get_move is followed in steps:            *)
(* sync_with_game_state, the passes of run_search, the choice of the most  *)
(* visited child.  hash_order is fixed for the game; simulate plays the    *)
(* same playout as HeuristicPolicy::run_simulation and returns one of      *)
(* SimOutcomes.                                                            *)
(***************************************************************************)
\* The passes of run_search followed (get_move asks for 5000).
MaxUctPasses == 6

\* The positions the game is followed from.
UctPositions == {RoundTwoPosition}

\* No two children of one node have UCT values too close to order.
UctDecided(nodes) ==
  \A i \in DOMAIN nodes : \A a, b \in Range(nodes[i].children) :
    nodes[i].untried_actions = <<>> => UctCompare(uct(nodes, i - 1, a), uct(nodes, i - 1, b)) # "Close"

\* The calls of get_move, the moves of the other seat and the refill seeds
\* followed.
MaxUctCalls == 2

MaxUctReplies == 1

MaxUctSeed == 0

InitUct ==
  /\ mcts_ai \in {[nodes |-> <<>>, root_idx |-> 0, at |-> "idle", passes |-> 0,
                   game_state |-> gs, returned |-> NoMove,
                   seat |-> gs.current_player_idx, calls |-> 0, replies |-> 0,
                   sync |-> [kind |-> "none", old_nodes |-> <<>>, old_root_idx |-> 0]] :
                    gs \in UctPositions}
  /\ hash_order \in HashOrders
  /\ state = [game_state |-> GameState_new(NumPlayers, 0), agents |-> <<>>]
  /\ tree = <<>>
  /\ pc = "idle"
  /\ iter = 0
  /\ call_state = state.game_state
  /\ returned = NoMove
  /\ calls = 0
  /\ sync_info = [kind |-> "none", old_root |-> NoIdx, old_len |-> 0, pos |-> 0]
  /\ root_leaf = <<>>
  /\ policy = <<>>
  /\ ended = <<>>
  /\ sim = <<>>
  /\ encoding = <<>>

UctUnchanged ==
  UNCHANGED <<state, tree, pc, iter, hash_order, call_state, returned, calls,
              sync_info, root_leaf, policy, ended, sim, encoding>>

\* What sync_with_game_state did: "created" a root, "matched" a child of the
\* root or "reset" the arena.
UctSyncKind(ai, game_state) ==
  IF ai.nodes = <<>> THEN "created"
  ELSE IF \E c \in Range(ai.nodes[ai.root_idx + 1].children) :
            ai.nodes[c + 1].game_state.players = game_state.players
    THEN "matched" ELSE "reset"

\* get_move, asked on the seat's turn: sync_with_game_state.
UctBegin ==
  /\ mcts_ai.at = "idle"
  /\ mcts_ai.calls < MaxUctCalls
  /\ ~mcts_ai.game_state.end_game_triggered
  /\ ~is_round_over(mcts_ai.game_state)
  /\ mcts_ai.game_state.current_player_idx = mcts_ai.seat
  /\ LET synced == MctsAI_sync_with_game_state(mcts_ai, mcts_ai.game_state, hash_order)
     IN mcts_ai' = [mcts_ai EXCEPT
                      !.nodes = synced.nodes, !.root_idx = synced.root_idx,
                      !.at = "search", !.passes = 0, !.calls = @ + 1,
                      !.sync = [kind |-> UctSyncKind(mcts_ai, mcts_ai.game_state),
                                old_nodes |-> mcts_ai.nodes,
                                old_root_idx |-> mcts_ai.root_idx]]
  /\ UctUnchanged

\* One pass of the loop of MctsAI::run_search.
UctPass ==
  /\ mcts_ai.at = "search"
  /\ mcts_ai.passes < MaxUctPasses
  /\ UctDecided(mcts_ai.nodes)
  /\ \E final_scores \in SimOutcomes :
       LET sel == MctsAI_select_and_expand(mcts_ai, hash_order)
       IN mcts_ai' = [mcts_ai EXCEPT
                        !.nodes = MctsAI_backpropagate(sel.nodes, sel.idx, final_scores),
                        !.passes = @ + 1]
  /\ UctUnchanged

\* get_move: the action of the most visited child of the root.
UctEnd ==
  /\ mcts_ai.at = "search"
  /\ mcts_ai.passes = MaxUctPasses
  /\ mcts_ai' = [mcts_ai EXCEPT !.at = "done", !.returned = MctsAI_best_action(mcts_ai)]
  /\ UctUnchanged

\* The game loop with the answer of get_move: apply_move for Some(move), the
\* end of the round's turns for None.
UctApply ==
  /\ mcts_ai.at = "done"
  /\ mcts_ai' = IF mcts_ai.returned # NoMove
                  THEN [mcts_ai EXCEPT !.at = "idle",
                                       !.game_state = apply_move(@, mcts_ai.returned)]
                  ELSE [mcts_ai EXCEPT !.at = "break"]
  /\ UctUnchanged

\* The turn of the other seat: apply_move with one of the legal moves.
UctReply ==
  /\ mcts_ai.at = "idle"
  /\ mcts_ai.replies < MaxUctReplies
  /\ ~mcts_ai.game_state.end_game_triggered
  /\ ~is_round_over(mcts_ai.game_state)
  /\ mcts_ai.game_state.current_player_idx # mcts_ai.seat
  /\ \E m \in Range(get_legal_moves(mcts_ai.game_state, hash_order)) :
       mcts_ai' = [mcts_ai EXCEPT !.game_state = apply_move(@, m), !.replies = @ + 1]
  /\ UctUnchanged

\* The end of a round in the game loop: run_tiling_phase, and
\* refill_factories unless the game has ended.
UctRoundEnd ==
  /\ \/ mcts_ai.at = "idle" /\ is_round_over(mcts_ai.game_state)
     \/ mcts_ai.at = "break"
  /\ ~mcts_ai.game_state.end_game_triggered
  /\ \E seed \in 0..MaxUctSeed :
       LET tiled == run_tiling_phase(mcts_ai.game_state)
       IN mcts_ai' = [mcts_ai EXCEPT
                        !.at = "idle",
                        !.game_state = IF ~tiled.end_game_triggered
                                         THEN refill_factories(tiled, seed) ELSE tiled]
  /\ UctUnchanged

NextUct ==
  \/ UctBegin
  \/ UctPass
  \/ UctEnd
  \/ UctApply
  \/ UctReply
  \/ UctRoundEnd

SpecUct == InitUct /\ [][NextUct]_vars

(***************************************************************************)
(* Properties of sync_tree_with_state, best_move, get_move and run_search.  *)
(***************************************************************************)
\* get_move has called sync_tree_with_state and has not yet searched.
AfterSync == pc = "search" /\ iter = 0

\* get_move has returned at least once; tree and returned are those of the
\* latest call.
AfterGetMove == pc = "idle" /\ calls > 0

ChildMoves(node) == [k \in DOMAIN node.children |-> node.children[k].move]

ChildVisits(t) == [k \in DOMAIN t[1].children |-> t[t[1].children[k].idx + 1].visit_count]

RootHasNoMoves ==
  /\ tree # <<>>
  /\ \A h \in HashOrders : get_legal_moves(tree[1].game_state, h) = <<>>

\* C1: when sync_tree_with_state finds a child of the root whose players equal
\* those of the given state, the tree after the call is that child's subtree:
\* the matched node is the root, without parent, with the visit count, the
\* accumulated value and the children it had, and the tree has as many nodes as
\* the subtree had.
C1_MatchedSubtreeKept ==
  (AfterSync /\ sync_info.matched) =>
    LET child == sync_info.child[1]
    IN /\ tree[1].parent = NoIdx
       /\ tree[1].visit_count = child.visit_count
       /\ tree[1].total_action_value = child.total_action_value
       /\ ChildMoves(tree[1]) = ChildMoves(child)
       /\ Len(tree) = sync_info.subtree_size

\* C2: when no child of the root has players equal to those of the given
\* state B, the tree after sync_tree_with_state(B) has exactly one node, without
\* parent, without children, never visited, whose game state is B.
C2_UnmatchedSyncStartsAfresh ==
  (AfterSync /\ ~sync_info.matched) =>
    /\ Len(tree) = 1
    /\ tree[1].parent = NoIdx
    /\ tree[1].children = <<>>
    /\ tree[1].visit_count = 0
    /\ tree[1].total_action_value = 0
    /\ tree[1].game_state = call_state

\* A sync without a match that was given a searched tree of several nodes.
C2_SearchedTreeDiscarded ==
  /\ AfterSync
  /\ ~sync_info.matched
  /\ sync_info.old_len > 1
  /\ calls > 1

\* C3: for every tree the agent holds and the state s of the game, a second
\* sync_tree_with_state(s) leaves the tree as the first one made it.
C3_SecondSyncChangesNothing ==
  tree # <<>> =>
    \A h \in HashOrders :
      sync_tree_with_state(sync_tree_with_state(tree, state, h), state, h)
        = sync_tree_with_state(tree, state, h)

\* C4: best_move returns the move of a child of the root whose visit_count is
\* the largest among the root's children, and returns no move exactly when the
\* root has no children.
C4_BestMoveIsMostVisited ==
  AfterGetMove =>
    /\ (returned = NoMove) <=> (tree[1].children = <<>>)
    /\ returned # NoMove =>
         \E k \in DOMAIN tree[1].children :
           /\ tree[1].children[k].move = returned
           /\ \A j \in DOMAIN tree[1].children : ChildVisits(tree)[j] <= ChildVisits(tree)[k]

\* best_move returned a move although another child has the higher mean value.
C4_MostVisitedNotBestValued ==
  /\ AfterGetMove
  /\ returned # NoMove
  /\ \E k, j \in DOMAIN tree[1].children :
       LET ck == tree[tree[1].children[k].idx + 1]
           cj == tree[tree[1].children[j].idx + 1]
       IN /\ tree[1].children[k].move = returned
          /\ cj.visit_count < ck.visit_count
          /\ mean_action_value(cj).num * mean_action_value(ck).den
               > mean_action_value(ck).num * mean_action_value(cj).den

\* C5: a move returned by get_move(s) is one of get_legal_moves(s).
C5_ReturnedMoveIsLegal ==
  (AfterGetMove /\ returned # NoMove) =>
    \E h \in HashOrders : returned \in Range(get_legal_moves(call_state, h))

\* C6 as stated: after k passes of run_search on a one-node tree, the visit
\* counts of the root's children, plus 1 if some pass selected the root itself,
\* add up to k.
C6_ChildVisitsPlusOne ==
  pc = "search" =>
    SumSeq(ChildVisits(tree)) + (IF root_leaf > 0 THEN 1 ELSE 0) = iter

\* C6: after k passes of run_search on a one-node tree, the visit counts of the
\* root's children, plus the number of passes that selected the root itself, add
\* up to k.
C6_ChildVisitsPlusRootLeaves ==
  pc = "search" => SumSeq(ChildVisits(tree)) + root_leaf = iter

\* run_search has finished and more than one pass selected the root itself.
C6_RootSelectedTwice ==
  /\ pc = "search"
  /\ iter = Iterations
  /\ root_leaf > 1

\* C7: when the root's state has no legal moves, run_search creates no node (one
\* node in the arena, no children of the root) and best_move returns no move.
C7_NoMovesNoNodes ==
  RootHasNoMoves =>
    /\ Len(tree) = 1
    /\ tree[1].children = <<>>
    /\ best_move(tree) = NoMove
    /\ AfterGetMove => returned = NoMove

\* get_move has run all its passes on a root without legal moves and returned.
C7_SearchedWithoutMoves ==
  /\ AfterGetMove
  /\ RootHasNoMoves
  /\ tree[1].visit_count = Iterations
  /\ returned = NoMove

(***************************************************************************)
(* Properties of mask_and_normalize_policy.                                *)
(***************************************************************************)
PolicyDone == policy # <<>> /\ policy.done

\* The slots of raw_policy (1-based) that the legal moves index.
LegalSlots ==
  {move_to_policy_index(policy.legal_moves[k].tile, policy.legal_moves[k].source) + 1 :
     k \in DOMAIN policy.legal_moves}

RECURSIVE FracSum(_, _)
\* The sum of the fractions f[x], x in S, in lowest terms.
FracSum(f, S) ==
  IF S = {} THEN Frac(0, 1)
  ELSE LET x == CHOOSE x \in S : TRUE
           r == FracSum(f, S \ {x})
       IN Reduce(f[x].num * r.den + r.num * f[x].den, f[x].den * r.den)

\* Every legal move has an entry and every entry is 1 / (number of legal moves).
UniformOverLegalMoves ==
  /\ DOMAIN policy.final_policy = Range(policy.legal_moves)
  /\ \A m \in DOMAIN policy.final_policy :
       policy.final_policy[m].num * Len(policy.legal_moves) = policy.final_policy[m].den

\* C8: for a non-empty list of legal moves, the probabilities that
\* mask_and_normalize_policy gives the legal moves add up to 1.
C8_ProbabilitiesSumToOne ==
  (PolicyDone /\ policy.legal_moves # <<>>) =>
    LET total == FracSum(policy.final_policy, DOMAIN policy.final_policy)
    IN total.num = total.den

\* C9: when every slot of the raw policy that a legal move indexes is zero or
\* negative, every legal move has an entry and every entry is 1/n, n the number
\* of legal moves.
C9_DegenerateGivesUniform ==
  (/\ PolicyDone
   /\ policy.legal_moves # <<>>
   /\ \A i \in LegalSlots : policy.raw_policy[i] <= 0) => UniformOverLegalMoves

\* Several legal moves, their slots zero or negative and not all zero, and a
\* positive slot that no legal move indexes.
C9_DegenerateAmongPositive ==
  /\ PolicyDone
  /\ Len(policy.legal_moves) > 1
  /\ \A i \in LegalSlots : policy.raw_policy[i] <= 0
  /\ \E i \in LegalSlots : policy.raw_policy[i] < 0
  /\ \E i \in DOMAIN policy.raw_policy \ LegalSlots : policy.raw_policy[i] > 0

\* C10: masking a raw policy whose slots all hold the same positive value gives
\* a map whose keys are the legal moves and whose values are all 1/n, n the
\* number of legal moves.
C10_UniformRawGivesUniform ==
  (/\ PolicyDone
   /\ policy.legal_moves # <<>>
   /\ \E v \in RawValues :
        v > 0 /\ \A i \in DOMAIN policy.raw_policy : policy.raw_policy[i] = v)
    => UniformOverLegalMoves

(***************************************************************************)
(* Properties of get_legal_moves.                                          *)
(***************************************************************************)
\* The game states at hand: the state of the game and those of the tree's nodes.
StatesAtHand == {state} \cup {tree[i].game_state : i \in DOMAIN tree}

NoMoveTwice(moves) == \A i, j \in DOMAIN moves : moves[i] = moves[j] => i = j

\* C11: get_legal_moves is empty exactly when is_round_over holds, and it never
\* returns one move twice, whatever order the HashSet iterates in.
C11_EmptyExactlyWhenRoundOver ==
  \A gs \in StatesAtHand : \A h \in HashOrders :
    /\ (get_legal_moves(gs, h) = <<>>) <=> is_round_over(gs)
    /\ NoMoveTwice(get_legal_moves(gs, h))

\* The game is at the end of a round, and the tree holds a position where a
\* source offers the same colour more than once.
C11_RoundOverAndRepeatedColour ==
  /\ is_round_over(state)
  /\ get_legal_moves(state, AllColors) = <<>>
  /\ \E i \in DOMAIN tree : \E f \in DOMAIN tree[i].game_state.factories :
       \E t \in Tile : CountTile(tree[i].game_state.factories[f], t) >= 2


(***************************************************************************)
(* Properties of run_simulation and of HeuristicAI.                        *)
(***************************************************************************)
\* Passes of the loop of run_simulation within which a rollout is to end.
MaxPasses == 100

\* C12: every rollout terminates (its loop is left within MaxPasses passes), and
\* what it returns has one entry for every player: the scores after the final
\* tiling phase and the end-game bonuses.
C12_RolloutTerminates ==
  /\ sim.passes <= MaxPasses
  /\ sim.at = "loop" =>
       \/ sim.sim_state.end_game_triggered
       \/ is_round_over(sim.sim_state)
       \/ \A h \in HashOrders : HeuristicAI_get_move(sim.sim_state, h) # NoMove
  /\ sim.at = "done" =>
       /\ sim.left_loop.end_game_triggered
       /\ Len(sim.scores) = Len(sim.left_loop.players)
       /\ \A p \in DOMAIN sim.scores :
            LET tiled == PlayerBoard_run_tiling_phase(sim.left_loop.players[p]).pb
            IN sim.scores[p] = tiled.score + calculate_end_game_bonuses(tiled)

\* A rollout of more than 60 passes has returned, with an end-game bonus in the
\* scores.
C12_LongRolloutReturned ==
  /\ sim.at = "done"
  /\ sim.passes > 60
  /\ \E p \in DOMAIN sim.scores :
       calculate_end_game_bonuses(sim.sim_state.players[p]) > 0


\* The position the simulation agent is asked about in the next pass.
AgentAsked ==
  /\ sim # <<>>
  /\ sim.at = "loop"
  /\ ~sim.sim_state.end_game_triggered
  /\ ~is_round_over(sim.sim_state)

AskedMoves == Range(get_legal_moves(sim.sim_state, AllColors))

\* C13: in the scoring of find_best_general_move, every legal move to the floor
\* scores strictly lower than every legal move to a pattern line.
C13_FloorScoresBelowEveryLine ==
  AgentAsked =>
    \A f, l \in AskedMoves :
      f.destination.kind = "Floor" /\ l.destination.kind = "PatternLine"
        => general_move_score(sim.sim_state, f) < general_move_score(sim.sim_state, l)


\* Move m fills its pattern line exactly, with no tile left for the floor.
FillsExactly(gs, m) ==
  /\ m.destination.kind = "PatternLine"
  /\ count_tiles_at_source(gs, m.source, m.tile) = space_available(gs, m.destination.idx)

\* Move m sends at least one tile to the floor.
Overflows(gs, m) ==
  \/ m.destination.kind = "Floor"
  \/ count_tiles_at_source(gs, m.source, m.tile) > space_available(gs, m.destination.idx)

\* The legal moves of the position asked about that fill a line exactly, when
\* there is exactly one and every other legal move overflows; {} otherwise.
OnlyExactFill ==
  LET exact == {m \in AskedMoves : FillsExactly(sim.sim_state, m)}
  IN IF /\ AgentAsked
        /\ Cardinality(exact) = 1
        /\ \A m \in AskedMoves \ exact : Overflows(sim.sim_state, m)
     THEN exact ELSE {}

C15_BadPlayerCountStops ==
  /\ GameState_new_halts(encoding.num_players) => encoding.at \in {"new", "halted"}
  /\ encoding.at = "encoded" => Len(encoding.game[1].players) <= MAX_PLAYERS

\* GameState::new has halted for a count it does not support.
C15_NewHalted == encoding.at = "halted" /\ encoding.num_players = MaxPlayerCount

\* A vector came back for a state of more than MAX_PLAYERS players, and it is
\* the vector of the state without the players past the fourth.
C15_FifthPlayerDropped ==
  /\ encoding.at = "encoded"
  /\ Len(encoding.game[1].players) > MAX_PLAYERS
  /\ Len(encoding.input) = INPUT_SIZE
  /\ encoding.input = state_to_input([encoding.game[1] EXCEPT
                                        !.players = SubSeq(@, 1, MAX_PLAYERS)])

\* The passes of run_search that ended at node idx of the arena.
EndedAt(idx) == IF idx + 1 \in DOMAIN ended THEN ended[idx + 1] ELSE 0

RECURSIVE PathToRoot(_, _)
\* The nodes backpropagation walks from start_idx: the node, its parent, ...
PathToRoot(t, start_idx) ==
  IF start_idx = NoIdx THEN {}
  ELSE {start_idx} \cup PathToRoot(t, t[start_idx + 1].parent)

\* The passes whose path went through node idx: they ended at idx or below.
PassesThrough(t, idx) ==
  SumSeq(<<>> \o [j \in 1..Len(t) |-> IF idx \in PathToRoot(t, j - 1) THEN EndedAt(j - 1) ELSE 0])

ChildrenVisits(t, idx) ==
  SumSeq(<<>> \o [k \in 1..Len(t[idx + 1].children) |->
                    t[t[idx + 1].children[k].idx + 1].visit_count])

\* C16: in every tree the search reaches, each node's visit_count is the
\* number of completed passes of run_search whose path went through the node,
\* which is the number of passes that ended at the node plus the sum of its
\* children's visit counts: every pass adds exactly 1 on each node from the
\* selected one up to the root and nothing elsewhere.
C16_VisitCountIsPassesThrough ==
  \A i \in DOMAIN tree :
    /\ tree[i].visit_count = PassesThrough(tree, i - 1)
    /\ tree[i].visit_count = EndedAt(i - 1) + ChildrenVisits(tree, i - 1)

\* A node below the root at which one pass ended and through which a later
\* pass went on to a child, and the root holds every pass.
C16_PassEndedAndPassedOn ==
  \E i \in DOMAIN tree :
    /\ tree[i].parent # NoIdx
    /\ EndedAt(i - 1) >= 1
    /\ ChildrenVisits(tree, i - 1) >= 1
    /\ tree[1].visit_count = iter
    /\ iter = Iterations

\* The child of node idx that select_and_expand moves to.
best_child_idx(t, idx) ==
  t[idx + 1].children[MaxByScore(t, t[idx + 1].children, t[idx + 1].visit_count, 2, 1)].idx

RECURSIVE SelectionChoices(_, _)
\* The nodes at which the next select_and_expand picks among children.
SelectionChoices(t, idx) ==
  IF t[idx + 1].untried_moves # <<>> \/ t[idx + 1].children = <<>> THEN {}
  ELSE {idx} \cup SelectionChoices(t, best_child_idx(t, idx))

\* A puct score with the mean action value negated.
MeanNegated(score) == [score EXCEPT !.q = Frac(-score.q.num, score.q.den)]

\* C17: the child's mean action value enters the selection score negated:
\* the child selection descends into has the greatest -mean + exploration term
\* among its siblings, so of two siblings with the same prior probability and
\* the same visit count the one with the lower mean_action_value is taken.
C17_SelectionNegatesMean ==
  (pc = "search" /\ iter < Iterations) =>
    \A idx \in SelectionChoices(tree, 0) :
      \A k \in DOMAIN tree[idx + 1].children :
        ~ScoreGreater(
            MeanNegated(puct_score(tree, tree[idx + 1].children[k].idx, tree[idx + 1].visit_count)),
            MeanNegated(puct_score(tree, best_child_idx(tree, idx), tree[idx + 1].visit_count)))

\* What of a node backpropagation leaves alone.
NodeShape(node) == [node EXCEPT !.visit_count = 0, !.total_action_value = 0]

\* Every child's state is its parent's state with the edge's move applied.
ChildStatesFollow(t) ==
  \A i \in DOMAIN t : \A k \in DOMAIN t[i].children :
    LET child == t[t[i].children[k].idx + 1]
    IN /\ child.parent = i - 1
       /\ child.game_state = apply_move(t[i].game_state, t[i].children[k].move)

\* From arena t to arena u one move m left the untried moves of one node, one
\* node with that node as parent and its state with m applied was appended,
\* (m, new index) became the node's last child and nothing else changed.
OneExpansion(t, u) ==
  LET new_idx == Len(t)
      new_node == u[new_idx + 1]
      sel == new_node.parent
  IN /\ Len(u) = Len(t) + 1
     /\ sel \in 0..(Len(t) - 1)
     /\ \E m \in Range(t[sel + 1].untried_moves) :
          /\ t[sel + 1].untried_moves = Append(u[sel + 1].untried_moves, m)
          /\ u[sel + 1].children = Append(t[sel + 1].children, [move |-> m, idx |-> new_idx])
          /\ new_node.game_state = apply_move(t[sel + 1].game_state, m)
          /\ new_node.children = <<>>
          /\ NodeShape(u[sel + 1]) =
               [NodeShape(t[sel + 1]) EXCEPT !.untried_moves = u[sel + 1].untried_moves,
                                             !.children = u[sel + 1].children]
     /\ \A j \in DOMAIN t : j # sel + 1 => NodeShape(u[j]) = NodeShape(t[j])

\* C19: every pass of run_search that expands takes exactly one move m from
\* the selected node's untried moves, appends exactly one node whose parent is
\* the selected node and whose state is the selected node's state with m
\* applied, registers (m, new index) as a child and changes no other node; a
\* pass adds at most one node, and every child's state is its parent's state
\* with the edge's move applied.
C19_OneNodePerExpansion ==
  [][(pc = "search" /\ iter' = iter + 1) =>
       /\ ChildStatesFollow(tree')
       /\ \/ OneExpansion(tree, tree')
          \/ /\ Len(tree') = Len(tree)
             /\ \A j \in DOMAIN tree : NodeShape(tree'[j]) = NodeShape(tree[j])]_vars

\* The search has expanded the root fully and then a child of the root.
C19_ExpandedBelowRoot ==
  /\ pc = "search"
  /\ Len(tree) = iter + 1
  /\ tree[1].untried_moves = <<>>
  /\ \E i \in DOMAIN tree : tree[i].parent \notin {NoIdx, 0}

\* C20: a pass of run_search that reaches a node without children expands it
\* fully, so that every node a pass has reached has one child for every entry
\* of the policy map of evaluate and no move left untried, each child with the
\* mapped probability as prior_probability.
C20_ReachedNodeFullyExpanded ==
  pc = "search" =>
    \A i \in DOMAIN tree : \A scores \in SimOutcomes :
      tree[i].visit_count >= 1 =>
        LET policy_map == HeuristicPolicy_evaluate(tree[i].game_state, scores, hash_order).policy
        IN /\ tree[i].untried_moves = <<>>
           /\ {tree[i].children[k].move : k \in DOMAIN tree[i].children} = DOMAIN policy_map
           /\ \A k \in DOMAIN tree[i].children :
                LET prior == tree[tree[i].children[k].idx + 1].prior_probability
                    mapped == policy_map[tree[i].children[k].move]
                IN prior.num * mapped.den = mapped.num * prior.den

RECURSIVE UctChoices(_, _)
\* The nodes at which the next MctsAI::select_and_expand picks among children.
UctChoices(nodes, idx) ==
  IF nodes[idx + 1].untried_actions # <<>> \/ nodes[idx + 1].children = <<>> THEN {}
  ELSE {idx} \cup UctChoices(nodes, uct_best_child(nodes, idx))

\* The UCT value of child c of node idx: the exploitation term is the child's
\* accumulated score for the player to move at idx over the child's visits.
UctOfChild(nodes, idx, c) ==
  [s |-> nodes[c + 1].scores[nodes[idx + 1].game_state.current_player_idx + 1],
   n |-> nodes[c + 1].visits,
   big_n |-> nodes[idx + 1].visits]

\* C18: at a node without untried moves and with children, the UCT selection
\* descends into a child of greatest UCT value, the exploitation term being
\* the child's accumulated score for the player to move at the node over the
\* child's visits, and into a child without visits when there is one.
C18_DescendsIntoGreatestUct ==
  mcts_ai.at = "search" =>
    \A idx \in UctChoices(mcts_ai.nodes, mcts_ai.root_idx) :
      LET chosen == uct_best_child(mcts_ai.nodes, idx)
      IN \A c \in Range(mcts_ai.nodes[idx + 1].children) :
           /\ UctCompare(UctOfChild(mcts_ai.nodes, idx, c),
                         UctOfChild(mcts_ai.nodes, idx, chosen)) \in {"Less", "Equal"}
           /\ mcts_ai.nodes[c + 1].visits = 0 => mcts_ai.nodes[chosen + 1].visits = 0

\* The selection picks among children of which one is better for the player
\* to move at the node and another for the player to move at the children,
\* and among children with different visits.
C18_PerspectiveDecides ==
  /\ mcts_ai.at = "search"
  /\ mcts_ai.passes < MaxUctPasses
  /\ UctDecided(mcts_ai.nodes)
  /\ \E idx \in UctChoices(mcts_ai.nodes, mcts_ai.root_idx) :
       LET chosen == uct_best_child(mcts_ai.nodes, idx)
       IN /\ \E c \in Range(mcts_ai.nodes[idx + 1].children) :
               UctCompare(uct_own_player(mcts_ai.nodes, idx, c),
                          uct_own_player(mcts_ai.nodes, idx, chosen)) = "Greater"
          /\ \E c \in Range(mcts_ai.nodes[idx + 1].children) :
               mcts_ai.nodes[c + 1].visits # mcts_ai.nodes[chosen + 1].visits

\* In arena t no move is twice among a node's children, none is both a child
\* edge and untried, and both together are the legal moves of the node's state.
MovesPartitioned(t) ==
  \A i \in DOMAIN t :
    LET child_moves == ChildMoves(t[i])
    IN /\ NoMoveTwice(child_moves)
       /\ NoMoveTwice(t[i].untried_moves)
       /\ Range(child_moves) \cap Range(t[i].untried_moves) = {}
       /\ Range(child_moves) \cup Range(t[i].untried_moves)
            = Range(get_legal_moves(t[i].game_state, AllColors))

\* C21: in every tree the search reaches and for every node, no move is twice
\* among the children, no move is both a child edge and an untried move, the
\* child moves and the untried moves together are exactly the legal moves of
\* the node's state, and a pass of run_search only ever takes moves away from
\* a node's untried moves.
C21_MovesPartitionedAndUntriedShrinks ==
  [][/\ MovesPartitioned(tree)
     /\ MovesPartitioned(tree')
     /\ (pc = "search" /\ iter' = iter + 1) =>
          \A i \in DOMAIN tree :
            /\ Len(tree'[i].untried_moves) <= Len(tree[i].untried_moves)
            /\ tree'[i].untried_moves =
                 SubSeq(tree[i].untried_moves, 1, Len(tree'[i].untried_moves))]_vars

\* A node with two children and moves still untried, two passes into a search.
C21_HalfExpandedNode ==
  /\ pc = "search"
  /\ iter >= 2
  /\ \E i \in DOMAIN tree : Len(tree[i].children) >= 2 /\ tree[i].untried_moves # <<>>

RECURSIVE UctSubtree(_, _)
\* The arena indices reached from idx over children.
UctSubtree(nodes, idx) ==
  {idx} \cup UNION {UctSubtree(nodes, c) : c \in Range(nodes[idx + 1].children)}

\* sync_with_game_state of the running or the last get_move moved the root
\* onto a child of the root.
UctReused == mcts_ai.at \in {"search", "done"} /\ mcts_ai.sync.kind = "matched"

\* The old root, the matched child's siblings and their descendants.
UctLeftBehind ==
  (0..(Len(mcts_ai.sync.old_nodes) - 1)) \ UctSubtree(mcts_ai.sync.old_nodes, mcts_ai.root_idx)

\* C22 as claimed: after a sync that reuses a matched child the arena holds
\* only the nodes of the matched child's subtree; the old root, the matched
\* child's siblings and their descendants are not in the arena.
C22_OnlySubtreeInArena ==
  UctReused =>
    \A i \in DOMAIN mcts_ai.nodes : (i - 1) \in UctSubtree(mcts_ai.nodes, mcts_ai.root_idx)

\* C22 as it holds: after a sync that reuses a matched child the nodes reached
\* from the root are the matched child's subtree; the old root, the matched
\* child's siblings and their descendants are not reached from the root.
C22_OnlySubtreeReached ==
  UctReused =>
    /\ UctSubtree(mcts_ai.sync.old_nodes, mcts_ai.root_idx)
         \subseteq UctSubtree(mcts_ai.nodes, mcts_ai.root_idx)
    /\ UctSubtree(mcts_ai.nodes, mcts_ai.root_idx) \cap UctLeftBehind = {}
    /\ mcts_ai.sync.old_root_idx \in UctLeftBehind
    /\ mcts_ai.nodes[mcts_ai.root_idx + 1].parent = NoIdx

\* The root was moved onto a visited child with siblings, and the search has
\* gone on below it.
C22_SubtreeReused ==
  /\ UctReused
  /\ mcts_ai.sync.old_nodes[mcts_ai.root_idx + 1].visits >= 1
  /\ Cardinality(UctLeftBehind) >= 4
  /\ Cardinality(UctSubtree(mcts_ai.nodes, mcts_ai.root_idx)) >= 3

\* The range of the scores simulate returns.
SimLow == CHOOSE lo \in UNION {Range(o) : o \in SimOutcomes} :
            \A x \in UNION {Range(o) : o \in SimOutcomes} : lo <= x

SimHigh == CHOOSE hi \in UNION {Range(o) : o \in SimOutcomes} :
             \A x \in UNION {Range(o) : o \in SimOutcomes} : x <= hi

\* C23: with every score of simulate between SimLow and SimHigh, the
\* mean_action_value of every visited node lies between SimLow and SimHigh
\* after any number of passes, and the mean_action_value of a node with
\* visit_count 0 is 0, computed without a division by zero.
C23_MeanWithinScoreRange ==
  \A i \in DOMAIN tree :
    LET mean == mean_action_value(tree[i])
    IN /\ mean.den > 0
       /\ tree[i].visit_count = 0 => mean.num = 0
       /\ tree[i].visit_count > 0 =>
            /\ SimLow * mean.den <= mean.num
            /\ mean.num <= SimHigh * mean.den

\* A node visited more than once whose mean lies strictly inside the range,
\* and the search is over.
C23_MeanStrictlyInside ==
  /\ pc = "search"
  /\ iter = Iterations
  /\ \E i \in DOMAIN tree :
       /\ tree[i].visit_count >= 2
       /\ SimLow * tree[i].visit_count < tree[i].total_action_value
       /\ tree[i].total_action_value < SimHigh * tree[i].visit_count

\* C24: when the rollout returns the simulated game is complete: at the end
\* of the loop the end-game flag is set and the drafting of the final round
\* has been played out, all factories and the centre being empty, before the
\* final tiling and the bonus scoring are applied.
C24_FinalRoundPlayedOut ==
  sim.at = "done" =>
    /\ sim.left_loop.end_game_triggered
    /\ is_round_over(sim.left_loop)

\* C25: a node's prior_probability is set when the node is created, to 1 over
\* the number of its parent's children at that moment, and no pass of
\* run_search changes the prior_probability of a node that exists.
C25_PriorSetOnce ==
  [][(pc = "search" /\ iter' = iter + 1) =>
       /\ \A i \in DOMAIN tree : tree'[i].prior_probability = tree[i].prior_probability
       /\ \A i \in DOMAIN tree' \ DOMAIN tree :
            tree'[i].prior_probability =
              Frac(1, Len(tree'[tree'[i].parent + 1].children))]_vars

\* A node with a prior below 1 that has been selected again after its creation.
C25_SmallPriorRevisited ==
  /\ pc = "search"
  /\ \E i \in DOMAIN tree :
       /\ tree[i].prior_probability.den >= 2
       /\ tree[i].visit_count >= 2
       /\ tree[i].children # <<>>

\* The sources the claim speaks of: the factories 0..8 and the centre.
PolicySources == {Factory(i) : i \in 0..(NUM_FACTORIES - 1)} \cup {Center}

\* The slot (0-based) of the k-th legal move of the masked position.
SlotOfLegalMove(k) ==
  move_to_policy_index(policy.legal_moves[k].tile, policy.legal_moves[k].source)

\* C26: move_to_policy_index gives every (source, colour) pair, the source a
\* factory 0..8 or the centre, a slot of its own in 0..POLICY_SIZE-1, 50 slots
\* in all, and legal moves that differ only in the destination share a slot.
C26_SlotPerSourceAndColour ==
  PolicyDone =>
    /\ POLICY_SIZE = 50
    /\ \A s1 \in PolicySources, t1 \in Range(AllColors) :
         /\ move_to_policy_index(t1, s1) \in 0..(POLICY_SIZE - 1)
         /\ \A s2 \in PolicySources, t2 \in Range(AllColors) :
              move_to_policy_index(t1, s1) = move_to_policy_index(t2, s2)
                => (s1 = s2 /\ t1 = t2)
    /\ \A j, k \in DOMAIN policy.legal_moves :
         SlotOfLegalMove(j) = SlotOfLegalMove(k)
           <=> /\ policy.legal_moves[j].source = policy.legal_moves[k].source
               /\ policy.legal_moves[j].tile = policy.legal_moves[k].tile

\* A masked position with two legal moves that differ only in the destination
\* and with the same colour on offer in the centre and in a factory.
C26_SharedAndSeparateSlots ==
  /\ PolicyDone
  /\ \E j, k \in DOMAIN policy.legal_moves :
       /\ policy.legal_moves[j].source = policy.legal_moves[k].source
       /\ policy.legal_moves[j].tile = policy.legal_moves[k].tile
       /\ policy.legal_moves[j].destination # policy.legal_moves[k].destination
  /\ \E j, k \in DOMAIN policy.legal_moves :
       /\ policy.legal_moves[j].source = Center
       /\ policy.legal_moves[k].source.kind = "Factory"
       /\ policy.legal_moves[j].tile = policy.legal_moves[k].tile

\* C27: after sync_tree_with_state(s) the root's game state agrees with s on
\* the fields that decide the legal moves (factories, centre, current player,
\* place of the first-player marker), and on the player boards.
C27_RootAgreesOnLegalMoveFields ==
  AfterSync =>
    /\ tree[1].game_state.factories = call_state.factories
    /\ tree[1].game_state.center = call_state.center
    /\ tree[1].game_state.current_player_idx = call_state.current_player_idx
    /\ tree[1].game_state.first_player_marker_in_center
         = call_state.first_player_marker_in_center
    /\ tree[1].game_state.players = call_state.players

RECURSIVE ReachesRoot(_, _, _, _)
\* Following parent links from idx arrives at root within fuel steps.
ReachesRoot(parents, idx, root, fuel) ==
  IF idx = root THEN TRUE
  ELSE IF fuel = 0 \/ parents[idx + 1] = NoIdx THEN FALSE
  ELSE ReachesRoot(parents, parents[idx + 1], root, fuel - 1)

\* The arena given by the parent link and the child indices of each entry is a
\* tree below root: the root has no parent; every other entry of reached has a
\* parent in the arena, is listed once among that parent's children and comes
\* to the root over parent links.
ArenaIsTree(parents, children, root, reached) ==
  /\ parents[root + 1] = NoIdx
  /\ \A i \in reached \ {root} :
       /\ parents[i + 1] \in 0..(Len(parents) - 1)
       /\ Cardinality({k \in DOMAIN children[parents[i + 1] + 1] :
                         children[parents[i + 1] + 1][k] = i}) = 1
       /\ ReachesRoot(parents, i, root, Len(parents))

\* C28: in every arena of MctsAI (and of Mcts, whose root is entry 0) the
\* root has no parent and every other node reached from the root has a valid
\* parent index, is one child entry of that parent, and reaches the root over
\* parent links without a cycle.
C28_ArenaIsTreeBelowRoot ==
  /\ (mcts_ai # <<>> /\ mcts_ai.nodes # <<>>) =>
       ArenaIsTree(<<>> \o [i \in DOMAIN mcts_ai.nodes |-> mcts_ai.nodes[i].parent],
                   <<>> \o [i \in DOMAIN mcts_ai.nodes |-> mcts_ai.nodes[i].children],
                   mcts_ai.root_idx,
                   UctSubtree(mcts_ai.nodes, mcts_ai.root_idx))
  /\ tree # <<>> =>
       ArenaIsTree(<<>> \o [i \in DOMAIN tree |-> tree[i].parent],
                   <<>> \o [i \in DOMAIN tree |->
                              <<>> \o [k \in DOMAIN tree[i].children |-> tree[i].children[k].idx]],
                   0,
                   0..(Len(tree) - 1))

\* The root was moved onto a matched child, away from entry 0, and the search
\* then added children below the new root, after the nodes left behind.
C28_GrownBelowMovedRoot ==
  /\ UctReused
  /\ mcts_ai.root_idx # 0
  /\ Len(mcts_ai.nodes) >= Len(mcts_ai.sync.old_nodes) + 2
  /\ \A i \in (Len(mcts_ai.sync.old_nodes) + 1)..Len(mcts_ai.nodes) :
       mcts_ai.nodes[i].parent = mcts_ai.root_idx

\* C29: at every node where selection compares children by score (no untried
\* moves, at least one child) every child has been visited at least once and
\* the node at least as often as it has children; for Mcts and for MctsAI.
C29_ComparedChildrenVisited ==
  /\ \A i \in DOMAIN tree :
       (tree[i].untried_moves = <<>> /\ tree[i].children # <<>>) =>
         /\ \A k \in DOMAIN tree[i].children :
              tree[tree[i].children[k].idx + 1].visit_count >= 1
         /\ tree[i].visit_count >= Len(tree[i].children)
  /\ (mcts_ai # <<>>) =>
       \A i \in DOMAIN mcts_ai.nodes :
         (mcts_ai.nodes[i].untried_actions = <<>> /\ mcts_ai.nodes[i].children # <<>>) =>
           /\ \A k \in DOMAIN mcts_ai.nodes[i].children :
                mcts_ai.nodes[mcts_ai.nodes[i].children[k] + 1].visits >= 1
           /\ mcts_ai.nodes[i].visits >= Len(mcts_ai.nodes[i].children)

\* The next pass of run_search compares the children of the root by score.
C29_RootChildrenCompared ==
  /\ pc = "search"
  /\ iter < Iterations
  /\ tree[1].untried_moves = <<>>
  /\ Len(tree[1].children) >= 2

\* The arena indices the next pass of run_search indexes.
UctPassReads ==
  LET sel == MctsAI_select_and_expand(mcts_ai, hash_order)
  IN MctsAI_select_reads(mcts_ai.nodes, mcts_ai.root_idx)
       \cup MctsAI_backpropagate_reads(sel.nodes, sel.idx)

\* The root's subtree with the node the next pass adds, if it adds one.
UctPassSubtree ==
  UctSubtree(MctsAI_select_and_expand(mcts_ai, hash_order).nodes, mcts_ai.root_idx)

\* The nodes left behind by the moved root are as they were before the sync.
UctLeftBehindUntouched ==
  \A i \in UctLeftBehind : mcts_ai.nodes[i + 1] = mcts_ai.sync.old_nodes[i + 1]

UctPassAhead == mcts_ai.at = "search" /\ mcts_ai.passes < MaxUctPasses

\* C30 as claimed: after the root has moved onto a matched child, the passes
\* of the search read and modify only nodes of the new root's subtree.
C30_OnlySubtreeReadAndModified ==
  UctReused =>
    /\ UctLeftBehindUntouched
    /\ UctPassAhead => UctPassReads \subseteq UctPassSubtree

\* C30 as it holds: after the root has moved onto a matched child, the passes
\* of the search modify only nodes of the new root's subtree, so the old root
\* and the matched child's siblings stay as they were; outside that subtree a
\* pass reads arena entry 0 alone, and only when it expands a node.
C30_OnlySubtreeModified ==
  UctReused =>
    /\ UctLeftBehindUntouched
    /\ UctPassAhead =>
         /\ UctPassReads \subseteq UctPassSubtree \cup {0}
         /\ (0 \in UctPassReads /\ 0 \in UctLeftBehind) =>
              Len(MctsAI_select_and_expand(mcts_ai, hash_order).nodes) = Len(mcts_ai.nodes) + 1

\* All passes of a search below a moved root are done; the root was credited
\* by them and nodes were left behind.
C30_SearchedBelowMovedRoot ==
  /\ UctReused
  /\ mcts_ai.passes = MaxUctPasses
  /\ mcts_ai.nodes[mcts_ai.root_idx + 1].visits
       = mcts_ai.sync.old_nodes[mcts_ai.root_idx + 1].visits + MaxUctPasses
  /\ UctLeftBehind # {}

\* The rule of HeuristicAI::get_move that answers for gs: "none" without legal
\* moves, else the first of the priorities that finds a move.
AnsweringRule(gs, h) ==
  LET legal_moves == get_legal_moves(gs, h)
  IN IF legal_moves = <<>> THEN "none"
     ELSE IF find_big_grab_move(gs, legal_moves) # NoMove THEN "big_grab"
     ELSE IF gs.first_player_marker_in_center
               /\ find_untouched_center_move(gs, legal_moves) # NoMove THEN "center"
     ELSE IF is_first_move_of_round(gs)
               /\ find_first_move_priority(gs, legal_moves) # NoMove THEN "first_move"
     ELSE "general"

\* C31: for every state a playout passes through, HeuristicAI::get_move
\* returns no move exactly when there is no legal move, and otherwise a move
\* of get_legal_moves, whichever rule answers.
C31_AnswerIsLegalMove ==
  sim # <<>> =>
    \A h \in HashOrders :
      LET legal_moves == get_legal_moves(sim.sim_state, h)
          answer == HeuristicAI_get_move(sim.sim_state, h)
      IN /\ answer = NoMove <=> legal_moves = <<>>
         /\ answer # NoMove => answer \in Range(legal_moves)

\* A playout that has applied an answer of get_move stands at a state with
\* legal moves where a priority rule, not the general rule, answers.
C31_PriorityRuleAnswers ==
  /\ sim # <<>>
  /\ sim.at = "loop"
  /\ sim.last # NoMove
  /\ AnsweringRule(sim.sim_state, hash_order) \in {"big_grab", "center", "first_move"}

\* The players (1-based) that hold the first-player marker in gs.
MarkerHolders(gs) == {p \in DOMAIN gs.players : gs.players[p].has_first_player_marker}

\* C32: in every state of a playout at most one player holds the first-player
\* marker and none holds it while first_player_marker_in_center is true; in
\* the loop, that is between a refill and the next tiling phase, the marker is
\* in the centre or held by exactly one player.
C32_OneFirstPlayerMarker ==
  sim # <<>> =>
    /\ Cardinality(MarkerHolders(sim.sim_state)) <= 1
    /\ sim.sim_state.first_player_marker_in_center => MarkerHolders(sim.sim_state) = {}
    /\ sim.at = "loop" =>
         \/ sim.sim_state.first_player_marker_in_center
         \/ Cardinality(MarkerHolders(sim.sim_state)) = 1

\* A player holds the marker in a round that follows a tiling phase and a
\* refill of this playout.
C32_MarkerTakenInLaterRound ==
  /\ sim # <<>>
  /\ sim.at = "loop"
  /\ Cardinality(MarkerHolders(sim.sim_state)) = 1
  /\ ~sim.sim_state.first_player_marker_in_center
  /\ CountsTotal(sim.sim_state.discard_pile) > CountsTotal(state.discard_pile)

\* The tiles of colour t in gs: in the bag, the discard pile, the factories,
\* the centre, and on the players' pattern lines, floor lines and walls.
TilesOfColour(gs, t) ==
  gs.tile_bag[t] + gs.discard_pile[t]
    + SumSeq(<<>> \o [f \in DOMAIN gs.factories |-> CountTile(gs.factories[f], t)])
    + CountTile(gs.center, t)
    + SumSeq(<<>> \o [p \in DOMAIN gs.players |->
               SumSeq(<<>> \o [r \in 1..NUM_ROWS |->
                        CountTile(gs.players[p].pattern_lines[r], t)
                          + CountTile(gs.players[p].wall[r], t)])
                 + CountTile(gs.players[p].floor_line, t)])

\* The playout began at a state GameState::new built.
StartedFromNew ==
  state \in {GameState_new(NumPlayers, seed) : seed \in 0..MaxRolloutSeed}

\* C33: in every state a playout reaches from GameState::new by apply_move of
\* legal moves, run_tiling_phase and refill_factories, there are 100 tiles, 20
\* of each colour.
C33_TilesConserved ==
  (sim # <<>> /\ StartedFromNew) =>
    \A t \in Tile : TilesOfColour(sim.sim_state, t) = TILES_PER_COLOR

\* Some player of gs has a wall row with all five tiles.
HasCompleteRow(gs) ==
  \E p \in DOMAIN gs.players, r \in 1..NUM_ROWS :
    \A c \in 1..NUM_COLS : gs.players[p].wall[r][c] # "None"

\* C34: end_game_triggered, once true in a state of a playout, is true after
\* every apply_move of a legal move, run_tiling_phase, refill_factories and
\* apply_end_game_scoring from it; and it is true after a tiling phase that
\* leaves some wall row complete, so in every state with a complete row.
C34_EndGameTriggeredStays ==
  sim # <<>> =>
    LET gs == sim.sim_state
    IN /\ gs.end_game_triggered =>
            /\ \A h \in HashOrders : \A m \in Range(get_legal_moves(gs, h)) :
                 apply_move(gs, m).end_game_triggered
            /\ run_tiling_phase(gs).end_game_triggered
            /\ \A seed \in 0..MaxRolloutSeed : refill_factories(gs, seed).end_game_triggered
            /\ apply_end_game_scoring(gs).end_game_triggered
       /\ HasCompleteRow(run_tiling_phase(gs)) => run_tiling_phase(gs).end_game_triggered
       /\ HasCompleteRow(gs) => gs.end_game_triggered

\* A playout is over with a complete wall row; its loop was left in the middle
\* of a round, end_game_triggered set by apply_move and legal moves remaining.
C34_TriggeredBeforeTheRowIsComplete ==
  /\ sim # <<>>
  /\ sim.at = "done"
  /\ HasCompleteRow(sim.sim_state)
  /\ sim.left_loop.end_game_triggered
  /\ ~HasCompleteRow(sim.left_loop)
  /\ ~is_round_over(sim.left_loop)

=============================================================================
